---- MODULE Spec2Model ----
(***************************************************************************)
(* A model of the extension gateway of aspectrr/acacia: the request        *)
(* pipeline of ExtensionMiddleware (the second, Hono-free class of         *)
(* src/services/extensionMiddleware.ts, lines 851-1613), the sandbox       *)
(* executor of TranspileManager (src/unnamed/part_001) and the tenant data *)
(* gateway handed to hooks as context.database.                            *)
(*                                                                         *)
(* Strings whose characters the code inspects (paths, identifiers) are     *)
(* sequences of one-character strings; opaque strings are TLA+ strings.    *)
(* JavaScript values are tagged records: Undefined, or Obj(f) with f a     *)
(* function from keys to values.                                           *)
(***************************************************************************)
EXTENDS Integers, Sequences, FiniteSets, TLC

(* ------------------------------ bounds -------------------------------- *)

\* Number of route bindings of the store whose type, priority and code vary.
NRows == 3
\* Requests handled concurrently.
MaxReqs == 2
\* The clock stops after this many ticks.
MaxTicks == 2
\* Persisted enabled-set changes explored.
MaxChanges == 1
\* context.database calls explored.
MaxCalls == 1
\* The version counter of the extension goes up to this.
MaxVersion == 4
\* Changes of the store while two requests load their matching sets.
MaxEdits == 2
\* Calls of getOrCreateTranspiledCode explored.
MaxLookups == 3
\* Processes that call the extension service at the same time.
NProcs == 2
\* Calls of the extension service explored.
MaxSvcCalls == 3
\* Calls of uninstallExtension explored while hooks call the gateway.
MaxUninstalls == 1
\* Calls of writeFile and executeCommand made from outside createWorkspace.
MaxWsCalls == 2

(* ------------------------- program constants -------------------------- *)

\* private cacheExpiry: number = 300000
cacheExpiry == 300000
\* timeout: ext.timeout || 30000
DEFAULT_TIMEOUT == 30000
\* setTimeout(() => this.vmPool.delete(cacheKey), 600000)
PoolTTL == 600000
\* .toString("base64").slice(0, 32)
KeyLength == 32

(* --------------------------- JavaScript values ------------------------ *)

Undefined == [t |-> "undefined"]
Obj(f) == [t |-> "object", v |-> f]
Num(n) == [t |-> "number", v |-> n]
EmptyFn == [k \in {} |-> Undefined]
EmptyObj == Obj(EmptyFn)
IsObj(x) == x.t = "object"
\* JavaScript truthiness of the values of this model: undefined is falsy,
\* every object (also an empty one) is truthy.
Truthy(x) == x.t # "undefined" /\ ~(x.t = "number" /\ x.v = 0)
Has(x, k) == IsObj(x) /\ k \in DOMAIN x.v
\* x.k, undefined when absent
Get(x, k) == IF Has(x, k) THEN x.v[k] ELSE Undefined

\* { ...a, ...b }: spreading undefined contributes nothing.
Spread(a, b) ==
    LET fa == IF IsObj(a) THEN a.v ELSE EmptyFn
        fb == IF IsObj(b) THEN b.v ELSE EmptyFn
    IN  Obj([k \in DOMAIN fa \cup DOMAIN fb |->
                IF k \in DOMAIN fb THEN fb[k] ELSE fa[k]])

(* ------------------------------ strings ------------------------------- *)

RECURSIVE SplitFrom(_, _, _, _)
\* s.split(sep) for a one-character separator: cur is the segment being read.
SplitFrom(s, sep, i, cur) ==
    IF i > Len(s) THEN <<cur>>
    ELSE IF s[i] = sep THEN <<cur>> \o SplitFrom(s, sep, i + 1, <<>>)
    ELSE SplitFrom(s, sep, i + 1, Append(cur, s[i]))
Split(s, sep) == SplitFrom(s, sep, 1, <<>>)

\* A test for the character anywhere in the string
StartsWith_Anywhere(s, c) == \E i \in 1..Len(s) : s[i] = c

\* patternPart.startsWith(":")
StartsWith(s, c) == Len(s) >= 1 /\ s[1] = c

\* ExtensionMiddleware.routeMatches
routeMatches(pattern, patternMethod, requestPath, requestMethod) ==
    IF patternMethod # "ALL" /\ patternMethod # requestMethod THEN FALSE
    ELSE IF pattern = requestPath THEN TRUE
    ELSE LET patternParts == Split(pattern, "/")
             pathParts == Split(requestPath, "/")
         IN  /\ Len(patternParts) = Len(pathParts)
             /\ \A i \in 1..Len(patternParts) :
                  \/ StartsWith(patternParts[i], ":")
                  \/ patternParts[i] = pathParts[i]

(* ------------------------------ the store ----------------------------- *)

AppId == "app"
\* What a function's source does when it is validated, transpiled and run:
\*   insecure       matches a pattern of validateCodeSecurity
\*   untranspilable transpile() answers success: false
\*   returns        handler(context) resolves with the value Ret(row)
\*   throws         handler(context) throws (the async wrapper rejects)
\*   hangs          handler(context) awaits something that never settles
\*   spins          handler(context) loops synchronously for ever
\*   unparsable     the transpiled text is no function body: new Function throws
Codes == {"insecure", "untranspilable", "unparsable", "returns", "throws",
          "hangs", "spins"}

ReqMethod == "GET"
ReqPath == <<"/", "a">>
OtherPath == <<"/", "b">>
ParamPath == <<"/", ":", "x">>

\* The join userExtensions x extensions x functions x routes, one record per
\* route, in registration (insertion) order: rid is the position.
RowPath(i) == IF i % 2 = 0 THEN ParamPath ELSE ReqPath
RowMethod(i) == IF i % 3 = 0 THEN ReqMethod ELSE "ALL"
Row(i, ty, pr, code) ==
    [rid |-> i, userId |-> "u1", appId |-> AppId, extensionId |-> i,
     functionId |-> i, functionType |-> ty, functionCode |-> code,
     routePath |-> RowPath(i), routeMethod |-> RowMethod(i), priority |-> pr,
     timeout |-> 0, isEnabled |-> TRUE, isActive |-> TRUE]
\* Rows that never match the request of user u1: another path, another
\* method, another user, another application.
Decoys(n) ==
    << [Row(n + 1, "replace", 1, "returns") EXCEPT !.routePath = OtherPath],
       [Row(n + 2, "before", 20, "returns") EXCEPT !.routeMethod = "POST"],
       [Row(n + 3, "replace", 10, "returns") EXCEPT !.userId = "u2"],
       [Row(n + 4, "replace", 10, "returns") EXCEPT !.appId = "other"] >>

\* The value handler(context) of row's function resolves with, when it does.
Ret(row) ==
    LET i == row.rid
    IN  CASE row.functionType = "before" ->
               Obj([headers |-> Obj([h |-> Num(i)]), body |-> Obj([b |-> Num(i)]),
                    query |-> Obj([q |-> Num(i)])])
          [] row.functionType = "replace" ->
               Obj([status |-> Num(200 + i), body |-> Obj([k |-> Num(i)])])
          [] OTHER ->
               Obj([k |-> Num(i), status |-> Num(200 + i),
                    headers |-> Obj([h |-> Num(i)])])

Reqs == 1..MaxReqs
UserIds == {"", "u1", "u3"}

VARIABLES
    store,          \* the persisted rows (sequence, registration order)
    storeVer,       \* history: number of changes of the persisted enabled set
    storeHist,      \* history: storeHist[v + 1] is the store after change v
    changedAt,      \* history: changedAt[v] is the time of change v
    now,            \* Date.now()
    ticks,          \* history: clock steps taken
    extensionCache, \* ExtensionMiddleware.extensionCache: key -> entry
    loopBlocked,    \* the event loop is stuck in a synchronous hook
    req,            \* req[r]: the inbound request (userId is the x-user-id header)
    pc,             \* pc[r]: where handle(c, next) of request r stands
    startedAt,      \* history: time at which handle began
    context,        \* context[r]: ExtensionContext.request and .response
    loaded,         \* loaded[r]: the rows the select has read, not yet filtered
    matching,       \* matching[r]: matchingExtensions
    phase,          \* phase[r]: the executeFunctions call in progress
    todo,           \* todo[r]: the extensions of that call not yet executed
    results,        \* results[r][phase]: the ExecutionResult[] of each call
    functionLogs,   \* the function_logs table
    outcome,        \* outcome[r]: what the caller got
    nextCalls,      \* nextCalls[r]: invocations of next
    originCalls,    \* originCalls[r]: invocations of fetch on the origin
    origin          \* history: origin[r] is the origin's state at the proxy step

pipeVars == <<store, storeVer, storeHist, changedAt, now, ticks, extensionCache,
              loopBlocked, req, pc, startedAt, context, loaded, matching,
              phase, todo, results, functionLogs, outcome, nextCalls,
              originCalls, origin>>

VARIABLES
    userExtensions, \* the user_extensions table: installation records
    gw,             \* the context.database call in progress
    gwDone,         \* history: the calls that have settled, with their result
    dbLog           \* history: the statements db.execute was given

gwVars == <<userExtensions, gw, gwDone, dbLog>>

VARIABLES
    tables,            \* the physical extension tables: name -> columns
    dropped,           \* history: the names of the tables uninstalls dropped
    extension,         \* the extensions row of one extension: code, version
    extensionVersions  \* the extension_versions rows of that extension

admVars == <<tables, dropped, extension, extensionVersions>>

VARIABLES
    vmPool,            \* the transpiled code kept under its cache key
    poolTimers,        \* the pending setTimeout callbacks that delete a key
    lookups,           \* the calls of getOrCreateTranspiledCode in progress
    lookupsDone        \* history: the settled calls with what they returned
poolVars == <<vmPool, poolTimers, lookups, lookupsDone>>

VARIABLE
    matched            \* a route, a request method and path, and what
                       \* routeMatches answered for them

\* User ids: one written without hyphens, one in the hyphenated form
U1 == <<"u", "1">>
U2 == <<"u", "-", "2">>
GwUsers == {U1, U2}
\* Extension ids; EC declares no schema, so its installation has no table
EA == <<"e", "a">>
EB == <<"e", "b">>
EC == <<"e", "c">>
GwExtensions == {EA, EB, EC}
\* The processes that call the extension service at the same time
Procs == 1..NProcs
\* No call of the service in progress
SvcIdle == [pc |-> "idle"]

VARIABLES
    svc,               \* svc[p]: the call of the extension service that
                       \* process p has in progress, a transaction
    svcDone,           \* history: the settled calls of the service
    installCount       \* installCount[e]: extensions.installCount
svcVars == <<svc, svcDone, installCount>>

\* The ids of the agents created
AgentIds == {"agent-1", "agent-2", "agent-3"}

VARIABLES
    workspaces,        \* WorkspaceManager.workspaces: agentId -> AgentWorkspace
    activeAgents,      \* index.ts activeAgents: id -> Agent (workspaceReady)
    wsCalls,           \* wsCalls[id]: where the createAgent call of id stands
    wsDone             \* history: the settled calls of the workspace manager
wsVars == <<workspaces, activeAgents, wsCalls, wsDone>>

\* No context.database call is in progress
GwIdle == [pc |-> "idle"]
\* The extension has not been created
NoExtension == [exists |-> FALSE]

Phases == {"before", "replace", "after"}
NoOutcome == [kind |-> "none"]
NoEntry == [present |-> FALSE]
NoResults == [p \in Phases |-> <<>>]
CacheKeys == {<<u, ReqMethod, ReqPath>> : u \in UserIds}
cacheKey(r) == <<req[r].userId, req[r].method, req[r].path>>

\* context.request as handle builds it from the inbound request
OrigRequest ==
    [headers |-> Obj([h |-> Num(0), x |-> Num(0)]),
     body |-> Obj([b |-> Num(0), y |-> Num(0)]),
     query |-> Obj([q |-> Num(0)])]
\* What the origin answers when it is reached
OriginResponse ==
    Obj([data |-> Obj([k |-> Num(0), o |-> Num(0)]), status |-> Num(201),
         headers |-> Obj([h |-> Num(0), g |-> Num(0)])])

(* ------------------------- findMatchingExtensions --------------------- *)

\* .where(and(eq(userId), eq(isEnabled, true), eq(isActive, true), eq(appId)))
WhereClause(row, userId) ==
    /\ row.userId = userId
    /\ row.isEnabled
    /\ row.isActive
    /\ row.appId = AppId

RECURSIVE OrderByPriority(_, _)
\* .orderBy(routes.priority): the orders of the rows at positions S that are
\* ascending in priority; SQL leaves the order of equal priorities open.
OrderByPriority(st, S) ==
    IF S = {} THEN {<<>>}
    ELSE UNION { { <<st[x]>> \o t : t \in OrderByPriority(st, S \ {x}) } :
                 x \in {y \in S : \A z \in S : st[y].priority <= st[z].priority} }

\* A select that reads the first row as it was before every change, and the
\* other rows as they are
SelectRows_Torn(st, userId) ==
    OrderByPriority([i \in DOMAIN st |-> IF i = 1 THEN storeHist[1][i] ELSE st[i]],
                    {i \in DOMAIN st :
                       WhereClause(IF i = 1 THEN storeHist[1][i] ELSE st[i], userId)})

\* The results the select of findMatchingExtensions may return
SelectRows(st, userId) ==
    OrderByPriority(st, {i \in DOMAIN st : WhereClause(st[i], userId)})

\* matchingExtensions.filter((ext) => this.routeMatches(...))
FilterMatches(rows, path, method) ==
    SelectSeq(rows, LAMBDA ext :
        routeMatches(ext.routePath, ext.routeMethod, path, method))

\* matchingExtensions.filter((ext) => ext.functionType === ...)
OfType(m, T) == SelectSeq(m, LAMBDA ext : ext.functionType \in T)

(* ----------------------------- the sandbox ---------------------------- *)

\* validateCodeSecurity that finds no issue in any source
validateCodeSecurity_Lenient(code) == TRUE

\* validateCodeSecurity(code).isValid
validateCodeSecurity(code) == code # "insecure"

\* transpile(code, options).success
transpile(code) == code # "untranspilable"

\* TranspileManager.executeTranspiledCode, as executeFunctions calls it: what
\* the promise it returns settles with.  The executor runs synchronously:
\* it arms the timer, builds wrappedFunction from the text
\*   "use strict"; (async function(context) { ... })(arguments[0])
\* and calls it.  That body has no return statement, so the call yields
\* undefined whatever the handler does or returns (a throw inside the async
\* function only rejects the promise nobody keeps), the timer is cleared and
\* resolve(undefined) runs.  Only new Function itself can throw here.  A
\* handler that loops synchronously never gives the control back, and the
\* timer callback, which needs the event loop, never runs.
executeTranspiledCode(code, ret, timeout) ==
    CASE code = "unparsable" ->
           [settled |-> "rejected", value |-> Undefined, error |-> "SyntaxError"]
      [] code = "spins" ->
           [settled |-> "never", value |-> Undefined, error |-> ""]
      [] OTHER ->
           [settled |-> "resolved", value |-> Undefined, error |-> ""]

\* timeout: ext.timeout || 30000
TimeoutOf(ext) == IF ext.timeout # 0 THEN ext.timeout ELSE DEFAULT_TIMEOUT

\* One round of the loop of executeFunctions, up to results.push: the
\* ExecutionResult of ext.  seen and hasResponse record the context the
\* hook was given.
HookResult(ext, ctx) ==
    LET base == [functionId |-> ext.functionId, code |-> ext.functionCode,
                 priority |-> ext.priority, functionType |-> ext.functionType,
                 timeout |-> TimeoutOf(ext),
                 returned |-> IF ext.functionCode = "returns" THEN Ret(ext)
                                                               ELSE Undefined,
                 seen |-> ctx.request, hasResponse |-> Truthy(ctx.response)]
        fail(msg) == base @@ [success |-> FALSE, data |-> Undefined,
                              error |-> msg, invoked |-> FALSE]
    IN  IF ~validateCodeSecurity(ext.functionCode)
          THEN fail("Security validation failed")
        ELSE IF ~transpile(ext.functionCode)
          THEN fail("Code transpilation failed")
        ELSE LET x == executeTranspiledCode(ext.functionCode, Ret(ext),
                                            TimeoutOf(ext))
             IN  IF x.settled = "rejected" THEN fail(x.error)
                 ELSE base @@ [success |-> TRUE, data |-> x.value,
                               error |-> "", invoked |-> TRUE]

(* ------------------------------- handle ------------------------------- *)

RECURSIVE ApplyBefore(_, _)
\* handle, "Apply modifications from before extensions to the request context"
ApplyBefore(request, res) ==
    IF res = <<>> THEN request
    ELSE LET r1 == Head(res)
             d == r1.data
             hit == r1.success /\ Truthy(d)
             h == IF hit /\ Truthy(Get(d, "headers"))
                    THEN Spread(request.headers, Get(d, "headers"))
                    ELSE request.headers
             b == IF hit /\ Truthy(Get(d, "body"))
                    THEN Spread(request.body, Get(d, "body"))
                    ELSE request.body
             q == IF hit /\ Truthy(Get(d, "query"))
                    THEN Spread(request.query, Get(d, "query"))
                    ELSE request.query
         IN  ApplyBefore([headers |-> h, body |-> b, query |-> q], Tail(res))

RECURSIVE MergeLoop(_, _)
\* mergeResults: for (const result of extensionResults) ...
MergeLoop(mergedData, extensionResults) ==
    IF extensionResults = <<>> THEN mergedData
    ELSE LET r1 == Head(extensionResults)
         IN  MergeLoop(
               IF r1.success /\ Truthy(r1.data) /\ IsObj(r1.data)
                 THEN Spread(mergedData, r1.data) ELSE mergedData,
               Tail(extensionResults))

\* ExtensionMiddleware.mergeResults
mergeResults(originalData, extensionResults) ==
    MergeLoop(Spread(EmptyObj, originalData), extensionResults)

RECURSIVE FinalStatus(_, _)
\* handle, step 8: if (result.data.status) finalStatus = result.data.status
FinalStatus(status, res) ==
    IF res = <<>> THEN status
    ELSE LET r1 == Head(res)
         IN  FinalStatus(
               IF r1.success /\ Truthy(r1.data) /\ Truthy(Get(r1.data, "status"))
                 THEN Get(r1.data, "status") ELSE status,
               Tail(res))

RECURSIVE FinalHeaders(_, _)
\* handle, step 8: Object.assign(finalHeaders, result.data.headers)
FinalHeaders(headers, res) ==
    IF res = <<>> THEN headers
    ELSE LET r1 == Head(res)
         IN  FinalHeaders(
               IF r1.success /\ Truthy(r1.data) /\ Truthy(Get(r1.data, "headers"))
                 THEN Spread(headers, Get(r1.data, "headers")) ELSE headers,
               Tail(res))

\* ExtensionMiddleware.injectComponents
injectComponents(data, components) ==
    IF components = <<>> THEN data
    ELSE Spread(data, Obj([acacia_components |-> Obj([n |-> Num(Len(components))])]))

\* The object handle passes to proxyToOriginal: method, path, headers, body
\* and url, and no raw.
ProxyReq(ctx) ==
    Obj([method |-> Obj([m |-> Num(1)]), path |-> Obj([p |-> Num(1)]),
         headers |-> ctx.request.headers, body |-> ctx.request.body,
         url |-> Obj([u |-> Num(1)])])

\* ExtensionMiddleware.proxyToOriginal: the fetch arguments read
\* req.raw.headers; on a req without raw that is a TypeError inside the try,
\* before fetch is called, rethrown as "Failed to proxy request".
proxyToOriginal(reqObj, originUp) ==
    IF ~Truthy(Get(reqObj, "raw"))
      THEN [threw |-> TRUE, fetched |-> FALSE, response |-> Undefined,
            sent |-> Undefined, originUp |-> originUp]
    ELSE IF originUp
      THEN [threw |-> FALSE, fetched |-> TRUE, response |-> OriginResponse,
            sent |-> Get(reqObj, "raw"), originUp |-> originUp]
    ELSE [threw |-> TRUE, fetched |-> TRUE, response |-> Undefined,
          sent |-> Get(reqObj, "raw"), originUp |-> originUp]

\* The part of the state handle(c, next) of request r works on
St(r) ==
    [pc |-> pc[r], phase |-> phase[r], todo |-> todo[r],
     context |-> context[r], results |-> results[r],
     outcome |-> outcome[r], nextCalls |-> nextCalls[r],
     next |-> req[r].next]

\* The ways the promise of next() settles: the rest of the chain has run,
\* or a handler further down has thrown
NextSettles == {"resolves", "rejects"}

\* The places where handle calls next: `return next()` in the try block
\* (no user id, no matching extension) and `await next()` in the catch
\* clause (any step of the pipeline has thrown)
NextSite(why) ==
    IF why \in {"nouser", "nomatch"}
      THEN [inTry |-> TRUE, awaited |-> FALSE]
      ELSE [inTry |-> FALSE, awaited |-> TRUE]

\* A try block that catches the rejection of a promise it returns
Caught_Returned(inTry, awaited, settles) == inTry /\ settles = "rejects"

\* The catch clause of handle is entered by the call of next: the call is
\* in the try block, its promise is awaited there and rejects
Caught(inTry, awaited, settles) == inTry /\ awaited /\ settles = "rejects"

\* return next(), and the catch clause's await next(); the promise handle
\* returns settles as the one of next does
CallNext(s, why) ==
    LET site == NextSite(why)
        again == Caught(site.inTry, site.awaited, s.next)
    IN  [s EXCEPT !.pc = "done",
                  !.outcome = [kind |-> "next", why |-> why,
                               handle |-> IF s.next = "rejects"
                                            THEN "rejected" ELSE "resolved"],
                  !.nextCalls = @ + (IF again THEN 2 ELSE 1)]

\* c.status(...); c.header(...); return c.json(...)
Send(s, status, headers, body, via) ==
    [s EXCEPT !.pc = "done",
              !.outcome = [kind |-> "response", status |-> status,
                           headers |-> headers, body |-> body, via |-> via]]

\* const results = []; for (const ext of extensions) ...
StartPhase(s, ph, list) ==
    [s EXCEPT !.pc = "exec", !.phase = ph, !.todo = list]

\* handle, steps 6 to 9: merge, inject the components, apply the overrides
\* and send; comps is what getComponentsForRoute gives ("throws": its select
\* fails).
AfterAfter(s, comps) ==
    IF comps = "throws" THEN CallNext(s, "components")
    ELSE LET proxied == s.context.response
             res == s.results["after"]
             finalData == injectComponents(
                            mergeResults(Get(proxied, "data"), res), comps)
             status == FinalStatus(Get(proxied, "status"), res)
         IN  Send(s, IF Truthy(status) THEN status ELSE Num(200),
                  FinalHeaders(Spread(EmptyObj, Get(proxied, "headers")), res),
                  finalData, "proxy")

\* handle, steps 4 and 5, from the return of proxyToOriginal on
AfterProxy(s, m, px, comps) ==
    LET s2 == [s EXCEPT !.context.response = px.response]
        afterExtensions == OfType(m, {"after", "transform"})
    IN  IF afterExtensions # <<>>
          THEN StartPhase(s2, "after", afterExtensions)
          ELSE AfterAfter(s2, comps)

\* handle, step 3, from the return of executeFunctions(replaceExtensions)
AfterReplace(s) ==
    LET replaceResult == s.results["replace"]
        hits == {i \in 1..Len(replaceResult) : replaceResult[i].success}
    IN  IF hits = {} THEN [s EXCEPT !.pc = "proxy"]
        ELSE LET successfulReplace ==
                   replaceResult[CHOOSE i \in hits : \A j \in hits : i <= j]
                 d == successfulReplace.data
                 status == Get(d, "status")
                 body == Get(d, "body")
             IN  Send(s, IF Truthy(status) THEN status ELSE Num(200),
                      IF Truthy(Get(d, "headers")) THEN Get(d, "headers")
                                                    ELSE EmptyObj,
                      IF body.t # "undefined" THEN body ELSE d,
                      "replace")

\* handle, steps 2 and 3, from the return of executeFunctions(before)
AfterBefore(s, m) ==
    LET s2 == [s EXCEPT !.context.request =
                           ApplyBefore(@, s.results["before"])]
        replaceExtensions == OfType(m, {"replace"})
    IN  IF replaceExtensions # <<>>
          THEN StartPhase(s2, "replace", replaceExtensions)
          ELSE [s2 EXCEPT !.pc = "proxy"]

\* handle, steps 1 and 2, from the return of findMatchingExtensions
AfterMatching(s, m) ==
    IF Len(m) = 0 THEN CallNext(s, "nomatch")
    ELSE LET beforeExtensions == OfType(m, {"before"})
         IN  IF beforeExtensions # <<>>
               THEN StartPhase(s, "before", beforeExtensions)
               ELSE AfterBefore(s, m)

Commit(r, s) ==
    /\ pc' = [pc EXCEPT ![r] = s.pc]
    /\ phase' = [phase EXCEPT ![r] = s.phase]
    /\ todo' = [todo EXCEPT ![r] = s.todo]
    /\ context' = [context EXCEPT ![r] = s.context]
    /\ results' = [results EXCEPT ![r] = s.results]
    /\ outcome' = [outcome EXCEPT ![r] = s.outcome]
    /\ nextCalls' = [nextCalls EXCEPT ![r] = s.nextCalls]

(* ------------------------------ actions ------------------------------- *)

\* What getComponentsForRoute may give: its select fails, no component, one
ComponentResults == {"throws", <<>>, <<"c1">>}

NoLoad == [rows |-> <<>>, ver |-> 0, at |-> 0]

\* A handle that takes every request to carry a user
HasUser_Always(userId) == TRUE

\* handle's test of the x-user-id header: "" is the absent header
HasUser(userId) == userId # ""

\* handle, from its entry to the select of findMatchingExtensions (or to the
\* return of the cached matching set)
Start(r) ==
    /\ pc[r] = "start"
    /\ ~loopBlocked
    /\ startedAt' = [startedAt EXCEPT ![r] = now]
    /\ IF ~HasUser(req[r].userId)
         THEN /\ Commit(r, CallNext(St(r), "nouser"))
              /\ UNCHANGED matching
       ELSE LET cached == extensionCache[cacheKey(r)]
            IN  IF cached.present /\ now - cached.timestamp < cacheExpiry
                  THEN /\ matching' = [matching EXCEPT ![r] =
                                         [data |-> cached.data, ver |-> cached.ver,
                                          readAt |-> cached.readAt,
                                          got |-> TRUE, gotAtVer |-> storeVer]]
                       /\ Commit(r, AfterMatching(St(r), cached.data))
                  ELSE /\ Commit(r, [St(r) EXCEPT !.pc = "dbread"])
                       /\ UNCHANGED matching
    /\ UNCHANGED <<store, storeVer, storeHist, changedAt, now, ticks, extensionCache,
                   loopBlocked, req, loaded, functionLogs, originCalls,
                   origin, gwVars, admVars, poolVars, matched, svcVars, wsVars>>

\* The select of findMatchingExtensions is evaluated by the store, or fails
DbRead(r) ==
    /\ pc[r] = "dbread"
    /\ ~loopBlocked
    /\ \/ /\ Commit(r, CallNext(St(r),
                 IF /\ extensionCache[cacheKey(r)].present
                    /\ now - extensionCache[cacheKey(r)].timestamp >= cacheExpiry
                   THEN "registry, stale entry" ELSE "registry"))
          /\ UNCHANGED loaded
       \/ \E rows \in SelectRows(store, req[r].userId) :
            /\ loaded' = [loaded EXCEPT ![r] =
                            [rows |-> rows, ver |-> storeVer, at |-> now]]
            /\ Commit(r, [St(r) EXCEPT !.pc = "dbret"])
    /\ UNCHANGED <<store, storeVer, storeHist, changedAt, now, ticks, extensionCache,
                   loopBlocked, req, startedAt, matching, functionLogs,
                   originCalls,
                   origin, gwVars, admVars, poolVars, matched, svcVars, wsVars>>

\* findMatchingExtensions after the await: filter, cache, return; then
\* handle up to its next await
DbReturn(r) ==
    /\ pc[r] = "dbret"
    /\ ~loopBlocked
    /\ LET matches == FilterMatches(loaded[r].rows, req[r].path, req[r].method)
       IN  /\ extensionCache' = [extensionCache EXCEPT ![cacheKey(r)] =
                  [present |-> TRUE, data |-> matches, timestamp |-> now,
                   ver |-> loaded[r].ver, readAt |-> loaded[r].at]]
           /\ matching' = [matching EXCEPT ![r] =
                  [data |-> matches, ver |-> loaded[r].ver,
                   readAt |-> loaded[r].at, got |-> TRUE,
                   gotAtVer |-> storeVer]]
           /\ loaded' = [loaded EXCEPT ![r] = NoLoad]
           /\ Commit(r, AfterMatching(St(r), matches))
    /\ UNCHANGED <<store, storeVer, storeHist, changedAt, now, ticks, loopBlocked, req,
                   startedAt, functionLogs, originCalls,
                   origin, gwVars, admVars, poolVars, matched, svcVars, wsVars>>

\* executeFunctions: one extension is validated, transpiled and run, and its
\* result pushed
ExecHook(r) ==
    /\ pc[r] = "exec"
    /\ ~loopBlocked
    /\ LET ext == Head(todo[r])
           res == HookResult(ext, context[r])
       IN  IF /\ validateCodeSecurity(ext.functionCode)
              /\ transpile(ext.functionCode)
              /\ executeTranspiledCode(ext.functionCode, Ret(ext),
                                       TimeoutOf(ext)).settled = "never"
             THEN /\ loopBlocked' = TRUE
                  /\ Commit(r, [St(r) EXCEPT !.pc = "stuck"])
             ELSE /\ Commit(r, [St(r) EXCEPT !.pc = "log",
                                  !.results[phase[r]] = Append(@, res)])
                  /\ UNCHANGED loopBlocked
    /\ UNCHANGED <<store, storeVer, storeHist, changedAt, now, ticks, extensionCache,
                   req, startedAt, loaded, matching, functionLogs, originCalls,
                   origin, gwVars, admVars, poolVars, matched, svcVars, wsVars>>

\* A loop that does not move on: the extension just done is started again
Rest_Again(extensions) == extensions

\* for (const ext of extensions): the extensions the loop has yet to take
\* once the first of them is done
Rest(extensions) == Tail(extensions)

\* A row that says success whatever the result says
LogEntry_Success(r, result) ==
    [request |-> r, userId |-> req[r].userId,
     functionId |-> result.functionId, success |-> TRUE]

\* The row logFunctionExecution inserts for a result of request r
LogEntry(r, result) ==
    [request |-> r, userId |-> req[r].userId,
     functionId |-> result.functionId, success |-> result.success]

\* executeFunctions: logFunctionExecution of the result just pushed (a failed
\* insert is caught and printed), then the loop goes on; after the last
\* extension handle runs on to its next await
LogHook(r) ==
    /\ pc[r] = "log"
    /\ ~loopBlocked
    /\ LET res == results[r][phase[r]]
           last == res[Len(res)]
           entry == LogEntry(r, last)
           s == [St(r) EXCEPT !.todo = Rest(@)]
       IN  /\ \E logged \in BOOLEAN :
                functionLogs' = IF logged THEN Append(functionLogs, entry)
                                          ELSE functionLogs
           /\ IF s.todo # <<>> THEN Commit(r, [s EXCEPT !.pc = "exec"])
              ELSE IF phase[r] = "before"
                THEN Commit(r, AfterBefore(s, matching[r].data))
              ELSE IF phase[r] = "replace" THEN Commit(r, AfterReplace(s))
              ELSE \E comps \in ComponentResults :
                     Commit(r, AfterAfter(s, comps))
    /\ UNCHANGED <<store, storeVer, storeHist, changedAt, now, ticks, extensionCache,
                   loopBlocked, req, startedAt, loaded, matching, originCalls,
                   origin, gwVars, admVars, poolVars, matched, svcVars, wsVars>>

\* handle, step 4: proxyToOriginal settles; when it throws, the catch clause
\* of handle calls next
ProxyStep(r) ==
    /\ pc[r] = "proxy"
    /\ ~loopBlocked
    /\ \E originUp \in BOOLEAN :
         LET px == proxyToOriginal(ProxyReq(context[r]), originUp)
         IN  /\ originCalls' = [originCalls EXCEPT ![r] =
                                  IF px.fetched THEN @ + 1 ELSE @]
             /\ origin' = [origin EXCEPT ![r] =
                             IF originUp THEN "up" ELSE "down"]
             /\ IF px.threw
                  THEN Commit(r, CallNext(St(r), "proxy"))
                  ELSE \E comps \in ComponentResults :
                         Commit(r, AfterProxy(St(r), matching[r].data, px, comps))
    /\ UNCHANGED <<store, storeVer, storeHist, changedAt, now, ticks,
                   extensionCache, loopBlocked, req, startedAt, loaded,
                   matching, functionLogs, gwVars,
                   admVars, poolVars, matched, svcVars, wsVars>>

(* --------------------------- specifications --------------------------- *)

NoMatching == [data |-> <<>>, ver |-> 0, readAt |-> 0, got |-> FALSE,
               gotAtVer |-> 0]

InitPipe ==
    /\ storeVer = 0
    /\ changedAt = <<>>
    /\ now = 0
    /\ ticks = 0
    /\ extensionCache = [k \in CacheKeys |-> NoEntry]
    /\ loopBlocked = FALSE
    /\ startedAt = [r \in Reqs |-> 0]
    /\ context = [r \in Reqs |-> [request |-> OrigRequest, response |-> Undefined]]
    /\ loaded = [r \in Reqs |-> NoLoad]
    /\ matching = [r \in Reqs |-> NoMatching]
    /\ phase = [r \in Reqs |-> "none"]
    /\ todo = [r \in Reqs |-> <<>>]
    /\ results = [r \in Reqs |-> NoResults]
    /\ functionLogs = <<>>
    /\ outcome = [r \in Reqs |-> NoOutcome]
    /\ nextCalls = [r \in Reqs |-> 0]
    /\ originCalls = [r \in Reqs |-> 0]
    /\ origin = [r \in Reqs |-> "untried"]
    /\ userExtensions = {}
    /\ gw = GwIdle
    /\ gwDone = <<>>
    /\ dbLog = <<>>
    /\ tables = {}
    /\ dropped = {}
    /\ extension = NoExtension
    /\ extensionVersions = {}
    /\ vmPool = {}
    /\ poolTimers = {}
    /\ lookups = {}
    /\ lookupsDone = <<>>
    /\ matched = [by |-> "none"]
    /\ svc = [p \in Procs |-> SvcIdle]
    /\ svcDone = <<>>
    /\ installCount = [e \in GwExtensions |-> 0]
    /\ workspaces = {}
    /\ activeAgents = {}
    /\ wsCalls = [id \in AgentIds |-> "none"]
    /\ wsDone = <<>>

\* The bindings the store is filled from: every type, both priorities in
\* one phase, and every code in a phase that runs it.
RowKinds ==
    { <<"before", 5, "returns">>,   <<"before", 10, "returns">>,
      <<"before", 5, "insecure">>,  <<"before", 10, "throws">>,
      <<"before", 5, "hangs">>,     <<"before", 10, "spins">>,
      <<"replace", 5, "returns">>,  <<"replace", 10, "returns">>,
      <<"replace", 5, "untranspilable">>, <<"replace", 10, "unparsable">>,
      <<"after", 5, "returns">>,    <<"transform", 10, "returns">> }

StoreOf(kind) ==
    [i \in 1..Len(kind) |-> Row(i, kind[i][1], kind[i][2], kind[i][3])]
    \o Decoys(Len(kind))

\* One request goes through the pipeline.  For the user with bindings the
\* store holds NRows bindings of any kind, and the rows that never match;
\* the request without a user id and the user without bindings meet one
\* store.
Init ==
    /\ InitPipe
    /\ \E u \in UserIds :
         /\ \E settles \in NextSettles :
              req = [r \in Reqs |-> [userId |-> u, method |-> ReqMethod,
                                     path |-> ReqPath, next |-> settles]]
         /\ \E kind \in [1..NRows -> RowKinds] :
              /\ u # "u1" => \A i \in 1..NRows : kind[i] = <<"before", 5, "returns">>
              /\ store = StoreOf(kind)
    /\ storeHist = <<store>>
    /\ pc = [r \in Reqs |-> IF r = 1 THEN "start" ELSE "idle"]

Next ==
    \E r \in Reqs :
       \/ Start(r)
       \/ DbRead(r)
       \/ DbReturn(r)
       \/ ExecHook(r)
       \/ LogHook(r)
       \/ ProxyStep(r)

vars == <<pipeVars, gwVars, admVars, poolVars, matched, svcVars, wsVars>>

Spec == Init /\ [][Next]_vars

(* ---- the registry: the clock and the persisted enabled set change ---- *)

\* Date.now() advances: by a little, or by all but a millisecond of the TTL
TickSteps == {2, cacheExpiry - 1}
Tick ==
    /\ ticks < MaxTicks
    /\ \E d \in TickSteps : now' = now + d
    /\ ticks' = ticks + 1
    /\ UNCHANGED <<store, storeVer, storeHist, changedAt, extensionCache,
                   loopBlocked, req, pc, startedAt, context, loaded, matching,
                   phase, todo, results, functionLogs, outcome, nextCalls,
                   originCalls,
                   origin, gwVars, admVars, poolVars, matched, svcVars, wsVars>>

Changed(st) ==
    /\ storeVer < MaxChanges
    /\ store' = st
    /\ storeVer' = storeVer + 1
    /\ storeHist' = Append(storeHist, st)
    /\ changedAt' = Append(changedAt, now)
    /\ UNCHANGED <<now, ticks, extensionCache, loopBlocked, req, pc, startedAt,
                   context, loaded, matching, phase, todo, results,
                   functionLogs, outcome, nextCalls, originCalls,
                   origin, gwVars, admVars, poolVars, matched, svcVars, wsVars>>

\* An installation is enabled or disabled (userExtensions.isEnabled)
SetEnabled(i) == Changed([store EXCEPT ![i].isEnabled = ~@])

\* A route is activated or deactivated (routes.isActive)
SetActive(i) == Changed([store EXCEPT ![i].isActive = ~@])

\* MaxReqs requests of one user for one route, which one binding matches
InitRegistry ==
    /\ InitPipe
    /\ req = [r \in Reqs |-> [userId |-> "u1", method |-> ReqMethod,
                              path |-> ReqPath, next |-> "resolves"]]
    /\ store = StoreOf(<< <<"before", 5, "returns">> >>)
    /\ storeHist = <<store>>
    /\ pc = [r \in Reqs |-> "start"]

NextRegistry ==
    \/ Next
    \/ Tick
    \/ SetEnabled(1)
    \/ SetActive(1)

SpecRegistry == InitRegistry /\ [][NextRegistry]_vars

(* ------------- concurrent loads while the store is changed ------------ *)

\* An installation of the user is enabled or disabled while requests are
\* in the pipeline
ToggleEnabled(i) ==
    /\ storeVer < MaxEdits
    /\ store' = [store EXCEPT ![i].isEnabled = ~@]
    /\ storeVer' = storeVer + 1
    /\ storeHist' = Append(storeHist, store')
    /\ changedAt' = Append(changedAt, now)
    /\ UNCHANGED <<now, ticks, extensionCache, loopBlocked, req, pc, startedAt,
                   context, loaded, matching, phase, todo, results,
                   functionLogs, outcome, nextCalls, originCalls,
                   origin, gwVars, admVars, poolVars, matched, svcVars, wsVars>>

\* MaxReqs requests of one user for one route, which two bindings match
InitSnapshot ==
    /\ InitPipe
    /\ req = [r \in Reqs |-> [userId |-> "u1", method |-> ReqMethod,
                              path |-> ReqPath, next |-> "resolves"]]
    /\ store = StoreOf(<< <<"before", 5, "returns">>, <<"before", 10, "returns">> >>)
    /\ storeHist = <<store>>
    /\ pc = [r \in Reqs |-> "start"]

NextSnapshot ==
    \/ Next
    \/ \E i \in 1..2 : ToggleEnabled(i)

SpecSnapshot == InitSnapshot /\ [][NextSnapshot]_vars

(* ----------------- the data gateway: context.database ----------------- *)

\* Strings the gateway takes apart are sequences of characters.
Lowers == <<"a", "b", "c", "d", "e", "f", "g", "h", "i", "j", "k", "l", "m",
            "n", "o", "p", "q", "r", "s", "t", "u", "v", "w", "x", "y", "z">>
Uppers == <<"A", "B", "C", "D", "E", "F", "G", "H", "I", "J", "K", "L", "M",
            "N", "O", "P", "Q", "R", "S", "T", "U", "V", "W", "X", "Y", "Z">>
Digits == {"0", "1", "2", "3", "4", "5", "6", "7", "8", "9"}
\* The class [a-zA-Z0-9_], which is also \w
WordChars ==
    {Lowers[i] : i \in 1..26} \cup {Uppers[i] : i \in 1..26} \cup Digits \cup {"_"}

\* String.prototype.toLowerCase
ToLowerCase(str) ==
    [i \in 1..Len(str) |->
       IF \E k \in 1..26 : Uppers[k] = str[i]
         THEN Lowers[CHOOSE k \in 1..26 : Uppers[k] = str[i]]
         ELSE str[i]]
\* String.prototype.includes
Includes(str, sub) ==
    \E i \in 0..(Len(str) - Len(sub)) : SubSeq(str, i + 1, i + Len(sub)) = sub
EndsWith(str, sub) ==
    /\ Len(sub) <= Len(str)
    /\ SubSeq(str, Len(str) - Len(sub) + 1, Len(str)) = sub
\* str.replace(/-/g, "_")
ReplaceHyphens(str) ==
    [i \in 1..Len(str) |-> IF str[i] = "-" THEN "_" ELSE str[i]]
RECURSIVE WordPrefix(_)
\* The longest prefix of str in \w*
WordPrefix(str) ==
    IF str = <<>> \/ Head(str) \notin WordChars THEN <<>>
    ELSE <<Head(str)>> \o WordPrefix(Tail(str))

\* The installations explored: the first user installs any of the
\* extensions, the second one EB
Installable == {<<U1, EA>>, <<U1, EB>>, <<U1, EC>>, <<U2, EB>>}
HasSchemas(extensionId) == extensionId # EC
NoTable == <<>>

DigitChars == <<"0", "1", "2", "3", "4", "5", "6", "7", "8", "9">>
RECURSIVE ToDigits(_)
\* `${timestamp}`: the decimal digits of a number
ToDigits(n) ==
    IF n < 10 THEN <<DigitChars[n + 1]>>
    ELSE ToDigits(n \div 10) \o <<DigitChars[(n % 10) + 1]>>

\* installExtension: dataTableName =
\*   `ext_${userId.replace(/-/g, "_")}_${extensionId.replace(/-/g, "_")}_${timestamp}`
DataTableName(userId, extensionId, timestamp) ==
    <<"e", "x", "t", "_">> \o ReplaceHyphens(userId) \o <<"_">>
      \o ReplaceHyphens(extensionId) \o <<"_">> \o ToDigits(timestamp)

\* The extension_schemas rows: the fields each extension declares, with
\* their types; EB declares a type createExtensionTable has no case for
SchemaOf(extensionId) ==
    CASE extensionId = EA -> <<[name |-> "title", type |-> "text"],
                              [name |-> "n", type |-> "integer"]>>
      [] extensionId = EB -> <<[name |-> "amount", type |-> "money"]>>
      [] OTHER -> <<>>
\* The types createExtensionTable has a case for
AllowedTypes == {"text", "integer", "boolean", "timestamp", "jsonb", "json", "uuid"}
\* createExtensionTable: switch (config.type)
ColumnType(type) ==
    CASE type = "text" -> "TEXT"
      [] type = "integer" -> "INTEGER"
      [] type = "boolean" -> "BOOLEAN"
      [] type = "timestamp" -> "TIMESTAMP"
      [] type \in {"jsonb", "json"} -> "JSONB"
      [] type = "uuid" -> "UUID"
      [] OTHER -> "TEXT"
\* DatabaseClient.createExtensionTable: CREATE TABLE IF NOT EXISTS
createExtensionTable(tbls, tableName, schemaDefinition) ==
    IF \E t \in tbls : t.name = tableName THEN tbls
    ELSE tbls \cup
           {[name |-> tableName,
             columns |-> [i \in 1..Len(schemaDefinition) |->
                            [name |-> schemaDefinition[i].name,
                             declared |-> schemaDefinition[i].type,
                             type |-> ColumnType(schemaDefinition[i].type)]]]}
\* DatabaseClient.dropExtensionTable: DROP TABLE IF EXISTS
dropExtensionTable(tbls, tableName) == {t \in tbls : t.name # tableName}

\* const fullTableName = `ext_${userId}_${tableName}`
FullTableName(userId, tableName) ==
    <<"e", "x", "t", "_">> \o userId \o <<"_">> \o tableName

\* ExtensionMiddleware.safeIdentifier: /^[a-zA-Z0-9_]+$/.test(name)
safeIdentifier(name) ==
    Len(name) > 0 /\ \A i \in 1..Len(name) : name[i] \in WordChars

\* ExtensionMiddleware.getUserExtensionTables: the dataTableName of the
\* user's installation records, without the empty ones (filter(Boolean))
getUserExtensionTables(ue, userId) ==
    {x.dataTableName : x \in {y \in ue : y.userId = userId}} \ {NoTable}

\* validateTableAccess without its check
validateTableAccess_Absent(allowedTables, userId, tableName) == TRUE

\* ExtensionMiddleware.validateTableAccess: TRUE when it does not throw
validateTableAccess(allowedTables, userId, tableName) ==
    FullTableName(userId, tableName) \in allowedTables

RECURSIVE Matches(_, _)
\* query.match(/kw\s+(\w+)/gi).map(m => m.split(/\s+/)[1]) on a query given
\* as its whitespace-separated pieces: the word that begins the piece after
\* one that ends in kw; the matching goes on behind that word
Matches(kw, pieces) ==
    IF Len(pieces) < 2 THEN <<>>
    ELSE LET w == WordPrefix(pieces[2])
         IN  IF EndsWith(ToLowerCase(pieces[1]), kw) /\ w # <<>>
               THEN <<w>> \o Matches(kw,
                        <<SubSeq(pieces[2], Len(w) + 1, Len(pieces[2]))>>
                        \o SubSeq(pieces, 3, Len(pieces)))
               ELSE Matches(kw, Tail(pieces))

\* ExtensionMiddleware.extractTableNames
extractTableNames(query) ==
    Matches(<<"f", "r", "o", "m">>, query) \o Matches(<<"j", "o", "i", "n">>, query)

dangerousKeywords ==
    { <<"d", "r", "o", "p">>, <<"d", "e", "l", "e", "t", "e">>,
      <<"t", "r", "u", "n", "c", "a", "t", "e">>, <<"a", "l", "t", "e", "r">>,
      <<"c", "r", "e", "a", "t", "e">>, <<"i", "n", "s", "e", "r", "t">>,
      <<"u", "p", "d", "a", "t", "e">> }

\* ExtensionMiddleware.isQuerySafe
isQuerySafe(query, allowedTables) ==
    /\ ~\E i \in 1..Len(query) : \E kw \in dangerousKeywords :
           Includes(ToLowerCase(query[i]), kw)
    /\ LET referencedTables == extractTableNames(query)
       IN  \A i \in 1..Len(referencedTables) :
             referencedTables[i] \in allowedTables

\* The tables installExtension creates for the users and extensions above
\* when the clock stands at 0
TableOf == [u \in GwUsers |-> [e \in {EA, EB} |-> DataTableName(u, e, 0)]]
\* The logical table names the hooks pass: the one that leads to the table
\* of EA, to the table of EB, to no table, and one that is no identifier
NameOf(extensionId) == ReplaceHyphens(extensionId) \o <<"_">> \o ToDigits(0)
TableNames == {NameOf(EA), NameOf(EB), <<"z", "z">>, <<"e", "-", "a">>}
\* The column names the hooks pass
Columns == { <<"c">>, <<"c", ";">> }

SELECT == <<"s", "e", "l", "e", "c", "t">>
FROM == <<"f", "r", "o", "m">>
JOIN == <<"j", "o", "i", "n">>
\* The statements the hooks pass to query, each with the tables it reads
Quoted(t) == <<"\"">> \o t \o <<"\"">>
Queries ==
    {[text |-> <<SELECT, <<"*">>, FROM, TableOf[u][e]>>,
      reads |-> {TableOf[u][e]}] : u \in GwUsers, e \in {EA, EB}}
    \cup
    {[text |-> <<SELECT, <<"*">>, FROM, Quoted(TableOf[u][EB])>>,
      reads |-> {TableOf[u][EB]}] : u \in GwUsers}
    \cup
    {[text |-> <<SELECT, <<"*">>, FROM, TableOf[u][EA] \o <<",">>, TableOf[U2][EB]>>,
      reads |-> {TableOf[u][EA], TableOf[U2][EB]}] : u \in {U1}}
    \cup
    {[text |-> <<SELECT, <<"*">>, FROM, TableOf[u][EA], JOIN, TableOf[u][EB]>>,
      reads |-> {TableOf[u][EA], TableOf[u][EB]}] : u \in {U1}}
    \cup
    {[text |-> << <<"D", "R", "O", "P">>, <<"t", "a", "b", "l", "e">>,
                  TableOf[u][EA] >>,
      reads |-> {}] : u \in {U1}}
NoQuery == [text |-> <<>>, reads |-> {}]

\* The named table is in an installation record of the user
Registered(ue, userId, tableName) ==
    \E x \in ue : /\ x.userId = userId
                  /\ x.dataTableName = FullTableName(userId, tableName)
Installed(userId, extensionId) ==
    \E x \in userExtensions : x.userId = userId /\ x.extensionId = extensionId

\* A hook of extensionId running for userId may call context.database: the
\* gateway was made by createDatabaseInterface(userId)
CanCall(userId, extensionId) ==
    /\ gw.pc = "idle"
    /\ Len(gwDone) < MaxCalls
    /\ Installed(userId, extensionId)
\* The tables a completed uninstallExtension has dropped and that do not
\* exist (no later install has created the name again)
Gone ==
    {t \in dropped :
       /\ \A x \in tables : x.name # t
       /\ \A p \in Procs :
            svc[p].pc \in {"drop", "delete"} => svc[p].dataTableName # t}

\* The call as it stands at its first await
NewCall(op, userId, extensionId, tableName, data, where, sqlQuery) ==
    [pc |-> "select", op |-> op, userId |-> userId,
     extensionId |-> extensionId, tableName |-> tableName,
     data |-> data, where |-> where, query |-> sqlQuery,
     allowedTables |-> {},
     everRegistered |-> Registered(userExtensions, userId, tableName),
     gone |-> Gone]

\* database.query(sqlQuery)
query ==
    /\ \E u \in GwUsers, e \in GwExtensions, q \in Queries :
         /\ CanCall(u, e)
         /\ gw' = NewCall("query", u, e, <<>>, <<>>, <<>>, q)
    /\ UNCHANGED <<userExtensions, gwDone, dbLog, pipeVars, admVars, poolVars, matched, svcVars, wsVars>>
\* database.insert(tableName, data)
insert ==
    /\ \E u \in GwUsers, e \in GwExtensions, t \in TableNames, d \in Columns :
         /\ CanCall(u, e)
         /\ gw' = NewCall("insert", u, e, t, <<d>>, <<>>, NoQuery)
    /\ UNCHANGED <<userExtensions, gwDone, dbLog, pipeVars, admVars, poolVars, matched, svcVars, wsVars>>
\* database.update(tableName, data, where)
update ==
    /\ \E u \in GwUsers, e \in GwExtensions, t \in TableNames,
          d \in Columns, w \in Columns :
         /\ CanCall(u, e)
         /\ gw' = NewCall("update", u, e, t, <<d>>, <<w>>, NoQuery)
    /\ UNCHANGED <<userExtensions, gwDone, dbLog, pipeVars, admVars, poolVars, matched, svcVars, wsVars>>
\* database.delete(tableName, where)
delete ==
    /\ \E u \in GwUsers, e \in GwExtensions, t \in TableNames, w \in Columns :
         /\ CanCall(u, e)
         /\ gw' = NewCall("delete", u, e, t, <<>>, <<w>>, NoQuery)
    /\ UNCHANGED <<userExtensions, gwDone, dbLog, pipeVars, admVars, poolVars, matched, svcVars, wsVars>>

\* The select of getUserExtensionTables is evaluated
SelectTables ==
    /\ gw.pc = "select"
    /\ gw' = [gw EXCEPT !.pc = "run",
                !.allowedTables = getUserExtensionTables(userExtensions, gw.userId)]
    /\ UNCHANGED <<userExtensions, gwDone, dbLog, pipeVars, admVars, poolVars, matched, svcVars, wsVars>>

\* The call settles: it throws error, or it has given db.execute its
\* statement
Settle(error, statements) ==
    /\ gwDone' = Append(gwDone,
                   [op |-> gw.op, everRegistered |-> gw.everRegistered,
                    error |-> error, issued |-> Len(statements)])
    /\ dbLog' = dbLog \o statements
    /\ gw' = GwIdle

\* query, insert, update and delete after the await of the allowed tables
Run ==
    /\ gw.pc = "run"
    /\ LET by == [userId |-> gw.userId, extensionId |-> gw.extensionId,
                  call |-> Len(gwDone) + 1]
           fullTableName == FullTableName(gw.userId, gw.tableName)
           columns == gw.data \o gw.where
       IN  IF gw.op = "query"
             THEN IF ~isQuerySafe(gw.query.text, gw.allowedTables)
                    THEN Settle("Unauthorized database access", <<>>)
                    ELSE Settle("", <<[op |-> "query", tables |-> gw.query.reads,
                                       by |-> by]>>)
           ELSE IF ~validateTableAccess(gw.allowedTables, gw.userId, gw.tableName)
             THEN Settle("Access denied to table", <<>>)
           ELSE IF \/ ~safeIdentifier(fullTableName)
                   \/ \E i \in 1..Len(columns) : ~safeIdentifier(columns[i])
             THEN Settle("Invalid identifier", <<>>)
           ELSE Settle("", <<[op |-> gw.op, tables |-> {fullTableName},
                              by |-> by]>>)
    /\ UNCHANGED <<userExtensions, pipeVars, admVars, poolVars, matched, svcVars, wsVars>>

\* query, insert, update and delete of the first createDatabaseInterface of
\* the file, after the await of the allowed tables: the statement text is
\* put together from the table name and the keys of data and where as they
\* come, and handed to sql.raw
RunFirst ==
    /\ gw.pc = "run"
    /\ LET by == [userId |-> gw.userId, extensionId |-> gw.extensionId,
                  call |-> Len(gwDone) + 1]
           fullTableName == FullTableName(gw.userId, gw.tableName)
       IN  IF gw.op = "query"
             THEN IF ~isQuerySafe(gw.query.text, gw.allowedTables)
                    THEN Settle("Unauthorized database access", <<>>)
                    ELSE Settle("", <<[op |-> "query", tables |-> gw.query.reads,
                                       by |-> by]>>)
           ELSE IF ~validateTableAccess(gw.allowedTables, gw.userId, gw.tableName)
             THEN Settle("Access denied to table", <<>>)
           ELSE Settle("", <<[op |-> gw.op, tables |-> {fullTableName},
                              by |-> by]>>)
    /\ UNCHANGED <<userExtensions, pipeVars, admVars, poolVars, matched, svcVars, wsVars>>

\* While a call is in progress: note that its table has become registered
NoteRegistered(ue) ==
    IF gw.pc = "idle" THEN gw
    ELSE [gw EXCEPT !.everRegistered =
            @ \/ Registered(ue, gw.userId, gw.tableName)]

\* GREATEST(a, b)
Greatest(a, b) == IF a >= b THEN a ELSE b

\* extensionService.installExtension(userId, extensionId) commits: the
\* table is created when the extension declares a schema, and the
\* installation record inserted
installExtension(userId, extensionId) ==
    /\ ~Installed(userId, extensionId)
    /\ LET dataTableName == IF HasSchemas(extensionId)
                              THEN DataTableName(userId, extensionId, now)
                              ELSE NoTable
       IN  /\ tables' = IF HasSchemas(extensionId)
                          THEN createExtensionTable(tables, dataTableName,
                                                    SchemaOf(extensionId))
                          ELSE tables
           /\ userExtensions' = userExtensions \cup
                {[userId |-> userId, extensionId |-> extensionId,
                  dataTableName |-> dataTableName]}
    /\ gw' = NoteRegistered(userExtensions')
    /\ installCount' = [installCount EXCEPT ![extensionId] = @ + 1]
    /\ UNCHANGED <<gwDone, dbLog, pipeVars, extension, extensionVersions,
                   poolVars, matched, svc, svcDone, wsVars>>

\* The installation record of the pair
UserExtension(userId, extensionId) ==
    CHOOSE x \in userExtensions :
      x.userId = userId /\ x.extensionId = extensionId

\* extensionService.uninstallExtension(userId, extensionId) commits: the
\* table is dropped and the installation record deleted
uninstallExtension(userId, extensionId) ==
    /\ Installed(userId, extensionId)
    /\ tables' =
         IF UserExtension(userId, extensionId).dataTableName # NoTable
           THEN dropExtensionTable(tables,
                  UserExtension(userId, extensionId).dataTableName)
           ELSE tables
    /\ userExtensions' =
         {x \in userExtensions :
            ~(x.userId = userId /\ x.extensionId = extensionId)}
    /\ installCount' = [installCount EXCEPT ![extensionId] = Greatest(@ - 1, 0)]
    /\ UNCHANGED <<gw, gwDone, dbLog, pipeVars, extension, extensionVersions,
                   poolVars, matched, svc, svcDone, wsVars>>

\* No request is in the pipeline; extensions get installed and removed, and
\* hooks call context.database
InitGateway ==
    /\ InitPipe
    /\ req = [r \in Reqs |-> [userId |-> "", method |-> ReqMethod,
                              path |-> ReqPath, next |-> "resolves"]]
    /\ store = <<>>
    /\ storeHist = <<store>>
    /\ pc = [r \in Reqs |-> "idle"]

NextGateway ==
    \/ query
    \/ insert
    \/ update
    \/ delete
    \/ SelectTables
    \/ Run
    \/ \E p \in Installable :
         installExtension(p[1], p[2]) /\ UNCHANGED dropped
    \/ \E p \in Installable :
         uninstallExtension(p[1], p[2]) /\ UNCHANGED dropped

SpecGateway == InitGateway /\ [][NextGateway]_vars

\* The same with the first createDatabaseInterface of the file
NextGatewayFirst ==
    \/ query
    \/ insert
    \/ update
    \/ delete
    \/ SelectTables
    \/ RunFirst
    \/ \E p \in Installable : installExtension(p[1], p[2]) /\ UNCHANGED dropped
    \/ \E p \in Installable : uninstallExtension(p[1], p[2]) /\ UNCHANGED dropped

SpecGatewayFirst == InitGateway /\ [][NextGatewayFirst]_vars

(* ------------- installations over time, and their tables -------------- *)

\* installExtension's commit, with nothing else noted
InstallStep ==
    /\ \E p \in Installable : installExtension(p[1], p[2])
    /\ UNCHANGED dropped
\* uninstallExtension's commit, the name of the dropped table noted
UninstallStep ==
    \E p \in Installable :
      /\ uninstallExtension(p[1], p[2])
      /\ dropped' = dropped \cup
           ({UserExtension(p[1], p[2]).dataTableName} \ {NoTable})

\* Extensions get installed and removed while the clock advances
NextInstall ==
    \/ Tick
    \/ InstallStep
    \/ UninstallStep

SpecInstall == InitGateway /\ [][NextInstall]_vars

(* -------------------- extension code and its versions ------------------ *)

\* The codes written into the extension
ExtCodes == {"code a", "code b", "code c"}

\* ExtensionService.createExtension: the extensions row (version defaults to
\* 1) and the initial version record
createExtension(code) ==
    /\ ~extension.exists
    /\ extension' = [exists |-> TRUE, code |-> code, version |-> 1]
    /\ extensionVersions' = extensionVersions \cup {[version |-> 1, code |-> code]}
    /\ UNCHANGED <<pipeVars, gwVars, tables, dropped, poolVars, matched, svcVars, wsVars>>

\* ExtensionService.updateExtension
updateExtension(code) ==
    /\ extension.exists
    /\ extension.version < MaxVersion
    /\ extension' = [extension EXCEPT !.code = code, !.version = @ + 1]
    /\ extensionVersions' = extensionVersions \cup
         {[version |-> extension.version + 1, code |-> code]}
    /\ UNCHANGED <<pipeVars, gwVars, tables, dropped, poolVars, matched, svcVars, wsVars>>

\* ExtensionService.rollbackExtension: the code of the target version is
\* written into the extensions row
rollbackExtension(targetVersion) ==
    /\ extension.exists
    /\ \E version \in extensionVersions :
         /\ version.version = targetVersion
         /\ extension' = [extension EXCEPT !.code = version.code]
    /\ UNCHANGED <<pipeVars, gwVars, tables, dropped, extensionVersions,
                   poolVars, matched, svcVars, wsVars>>

NextVersions ==
    \/ \E code \in ExtCodes : createExtension(code)
    \/ \E code \in ExtCodes : updateExtension(code)
    \/ \E targetVersion \in 1..MaxVersion : rollbackExtension(targetVersion)

SpecVersions == InitGateway /\ [][NextVersions]_vars

(* ------- the extension service, its calls taken statement by statement ------ *)

\* The calls begun so far; a call is numbered as it begins, and the rows it
\* inserts get that number as their generated id
Begun == Len(svcDone) + Cardinality({p \in Procs : svc[p] # SvcIdle})
MayBegin(p) == svc[p] = SvcIdle /\ Begun < MaxSvcCalls

\* The call of p settles with the error it throws ("" when it returns)
SvcSettle(p, error) ==
    /\ svcDone' = Append(svcDone,
                     [id |-> svc[p].id, op |-> svc[p].op, error |-> error,
                      call |-> svc[p]])
    /\ svc' = [svc EXCEPT ![p] = SvcIdle]

\* The user_extensions rows of the pair that are committed
RowsOf(userId, extensionId) ==
    {x \in userExtensions : x.userId = userId /\ x.extensionId = extensionId}

\* installExtension, the selects: the extension is found; a committed row of
\* the pair makes it throw
installExtension_Select(p, userId, extensionId) ==
    /\ MayBegin(p)
    /\ LET call == [pc |-> "create", op |-> "install", id |-> Begun + 1,
                    userId |-> userId, extensionId |-> extensionId,
                    dataTableName |-> NoTable]
       IN  IF RowsOf(userId, extensionId) # {}
             THEN /\ svcDone' = Append(svcDone,
                       [id |-> call.id, op |-> "install",
                        error |-> "Extension already installed",
                        call |-> call])
                  /\ UNCHANGED svc
             ELSE /\ svc' = [svc EXCEPT ![p] = call]
                  /\ UNCHANGED svcDone
    /\ UNCHANGED <<installCount, pipeVars, gwVars, admVars, poolVars, matched, wsVars>>

\* installExtension, dbClient.createExtensionTable: the table is created on
\* a connection of its own, outside the transaction
installExtension_CreateTable(p) ==
    /\ svc[p].pc = "create"
    /\ LET dataTableName ==
             IF HasSchemas(svc[p].extensionId)
               THEN DataTableName(svc[p].userId, svc[p].extensionId, now)
               ELSE NoTable
       IN  /\ tables' = IF HasSchemas(svc[p].extensionId)
                          THEN createExtensionTable(tables, dataTableName,
                                 SchemaOf(svc[p].extensionId))
                          ELSE tables
           /\ svc' = [svc EXCEPT ![p].pc = "insert",
                                 ![p].dataTableName = dataTableName]
    /\ UNCHANGED <<svcDone, installCount, pipeVars, gwVars, dropped, extension,
                   extensionVersions, poolVars, matched, wsVars>>

\* installExtension, the insert, the update of installCount and the commit
installExtension_Commit(p) ==
    /\ svc[p].pc = "insert"
    /\ svc[p].op = "install"
    /\ userExtensions' = userExtensions \cup
         {[id |-> svc[p].id, userId |-> svc[p].userId,
           extensionId |-> svc[p].extensionId,
           dataTableName |-> svc[p].dataTableName]}
    /\ installCount' = [installCount EXCEPT ![svc[p].extensionId] = @ + 1]
    /\ gw' = NoteRegistered(userExtensions')
    /\ SvcSettle(p, "")
    /\ UNCHANGED <<gwDone, dbLog, pipeVars, admVars, poolVars, matched, wsVars>>

\* A statement of the transaction fails (the user id is in no users row,
\* the connection is lost): what the transaction wrote is rolled back
Rollback(p) ==
    /\ svc[p].pc \in {"insert", "delete", "write"}
    /\ SvcSettle(p, "statement failed")
    /\ UNCHANGED <<installCount, pipeVars, gwVars, admVars, poolVars, matched, wsVars>>

\* uninstallExtension, the select ... limit(1): no committed row of the
\* pair makes it throw
uninstallExtension_Select(p, userId, extensionId) ==
    /\ MayBegin(p)
    /\ LET call == [pc |-> "drop", op |-> "uninstall", id |-> Begun + 1,
                    userId |-> userId, extensionId |-> extensionId,
                    dataTableName |-> NoTable]
       IN  IF RowsOf(userId, extensionId) = {}
             THEN /\ svcDone' = Append(svcDone,
                       [id |-> call.id, op |-> "uninstall",
                        error |-> "Extension not installed",
                        call |-> call])
                  /\ UNCHANGED svc
             ELSE /\ \E x \in RowsOf(userId, extensionId) :
                       svc' = [svc EXCEPT ![p] =
                                 [call EXCEPT !.dataTableName = x.dataTableName]]
                  /\ UNCHANGED svcDone
    /\ UNCHANGED <<installCount, pipeVars, gwVars, admVars, poolVars, matched, wsVars>>

\* uninstallExtension, dbClient.dropExtensionTable: the table of the row
\* read is dropped on a connection of its own, outside the transaction
uninstallExtension_DropTable(p) ==
    /\ svc[p].pc = "drop"
    /\ tables' = IF svc[p].dataTableName # NoTable
                   THEN dropExtensionTable(tables, svc[p].dataTableName)
                   ELSE tables
    /\ dropped' = dropped \cup ({svc[p].dataTableName} \ {NoTable})
    /\ svc' = [svc EXCEPT ![p].pc = "delete"]
    /\ UNCHANGED <<svcDone, installCount, pipeVars, gwVars, extension,
                   extensionVersions, poolVars, matched, wsVars>>

\* uninstallExtension, the delete of the rows of the pair, the update of
\* installCount and the commit
uninstallExtension_Commit(p) ==
    /\ svc[p].pc = "delete"
    /\ userExtensions' = userExtensions \ RowsOf(svc[p].userId, svc[p].extensionId)
    /\ installCount' = [installCount EXCEPT ![svc[p].extensionId] =
                          Greatest(@ - 1, 0)]
    /\ SvcSettle(p, "")
    /\ UNCHANGED <<gw, gwDone, dbLog, pipeVars, admVars, poolVars, matched, wsVars>>

\* Two processes install and uninstall while the clock advances
NextService ==
    \/ Tick
    \/ \E p \in Procs, i \in Installable : installExtension_Select(p, i[1], i[2])
    \/ \E p \in Procs : installExtension_CreateTable(p)
    \/ \E p \in Procs : installExtension_Commit(p)
    \/ \E p \in Procs, i \in Installable : uninstallExtension_Select(p, i[1], i[2])
    \/ \E p \in Procs : uninstallExtension_DropTable(p)
    \/ \E p \in Procs : uninstallExtension_Commit(p)
    \/ \E p \in Procs : Rollback(p)

SpecService == InitGateway /\ [][NextService]_vars

\* ExtensionService.updateExtension, findFirst: the extensions row as it is
\* committed at this moment, or 'Extension not found'
updateExtension_Select(p, code) ==
    /\ MayBegin(p)
    /\ LET call == [pc |-> "write", op |-> "update", id |-> Begun + 1,
                    code |-> code,
                    version |-> IF extension.exists THEN extension.version
                                                    ELSE 0]
       IN  IF ~extension.exists
             THEN /\ svcDone' = Append(svcDone,
                       [id |-> call.id, op |-> "update",
                        error |-> "Extension not found", call |-> call])
                  /\ UNCHANGED svc
             ELSE /\ svc' = [svc EXCEPT ![p] = call]
                  /\ UNCHANGED svcDone
    /\ UNCHANGED <<installCount, pipeVars, gwVars, admVars, poolVars, matched, wsVars>>

\* ExtensionService.updateExtension, the update that sets version to the
\* version read plus one, the insert of the version record numbered by the
\* version the update returned, and the commit
updateExtension_Commit(p) ==
    /\ svc[p].pc = "write"
    /\ LET updatedExtension ==
             [extension EXCEPT !.code = svc[p].code,
                               !.version = svc[p].version + 1]
       IN  /\ extension' = updatedExtension
           /\ extensionVersions' = extensionVersions \cup
                {[id |-> svc[p].id, version |-> updatedExtension.version,
                  code |-> svc[p].code]}
    /\ SvcSettle(p, "")
    /\ UNCHANGED <<installCount, pipeVars, gwVars, tables, dropped, poolVars,
                   matched, wsVars>>

\* An extension is created and two processes update it
NextUpdates ==
    \/ \E code \in ExtCodes : createExtension(code)
    \/ \E p \in Procs, code \in ExtCodes : updateExtension_Select(p, code)
    \/ \E p \in Procs : updateExtension_Commit(p)
    \/ \E p \in Procs : Rollback(p)

SpecUpdates == InitGateway /\ [][NextUpdates]_vars

\* Hooks call context.database while extensions are installed and, statement
\* by statement and one call after the other, uninstalled
NextUninstall ==
    \/ query
    \/ insert
    \/ update
    \/ delete
    \/ SelectTables
    \/ Run
    \/ InstallStep
    \/ /\ Begun < MaxUninstalls
       /\ \E i \in Installable : uninstallExtension_Select(1, i[1], i[2])
    \/ uninstallExtension_DropTable(1)
    \/ uninstallExtension_Commit(1)

SpecUninstall == InitGateway /\ [][NextUninstall]_vars

(* --------------- agents and their workspaces: createAgent -------------- *)

\* this.workspaces.get(agentId)
WorkspaceOf(agentId) == {w \in workspaces : w.agentId = agentId}
NoWorkspaceFound == "No workspace found for agent"

\* WorkspaceManager.writeFile: what it throws ("" when it returns); the file
\* system takes every write
writeFile(agentId, filePath) ==
    IF WorkspaceOf(agentId) = {} THEN NoWorkspaceFound ELSE ""

\* WorkspaceManager.executeCommand: what it throws; the command may fail
executeCommand(agentId, command, fails) ==
    IF WorkspaceOf(agentId) = {} THEN NoWorkspaceFound
    ELSE IF fails THEN "command failed" ELSE ""

\* index.ts createAgent up to its await: the agent is put into activeAgents
\* with workspaceReady false, and createWorkspace runs up to its first mkdir
createAgent(id) ==
    /\ wsCalls[id] = "none"
    /\ activeAgents' = activeAgents \cup {[id |-> id, workspaceReady |-> FALSE]}
    /\ wsCalls' = [wsCalls EXCEPT ![id] = "mkdir"]
    /\ UNCHANGED <<workspaces, wsDone, pipeVars, gwVars, admVars, poolVars,
                   matched, svcVars>>

\* createWorkspace: the directories of the workspace are made
createWorkspace_Mkdir(id) ==
    /\ wsCalls[id] = "mkdir"
    /\ wsCalls' = [wsCalls EXCEPT ![id] = "write"]
    /\ UNCHANGED <<workspaces, activeAgents, wsDone, pipeVars, gwVars, admVars,
                   poolVars, matched, svcVars>>

\* createWorkspace from this.writeFile(agentId, "package.json", ...) on: when
\* a write throws createWorkspace rejects and createAgent's catch clause
\* leaves workspaceReady as it is; otherwise the templates are written, npm
\* install is tried (its failure is caught), the workspace is put into the
\* map with status ready, and createAgent sets workspaceReady
createWorkspace_Write(id) ==
    /\ wsCalls[id] = "write"
    /\ LET error == writeFile(id, "package.json")
       IN  IF error # ""
             THEN /\ wsDone' = Append(wsDone,
                       [op |-> "createWorkspace", agentId |-> id,
                        error |-> error, hadWorkspace |-> WorkspaceOf(id) # {}])
                  /\ UNCHANGED <<workspaces, activeAgents>>
             ELSE /\ workspaces' = (workspaces \ WorkspaceOf(id))
                                     \cup {[agentId |-> id, status |-> "ready"]}
                  /\ activeAgents' = (activeAgents \ {a \in activeAgents : a.id = id})
                                       \cup {[id |-> id, workspaceReady |-> TRUE]}
                  /\ wsDone' = Append(wsDone,
                       [op |-> "createWorkspace", agentId |-> id,
                        error |-> "", hadWorkspace |-> WorkspaceOf(id) # {}])
    /\ wsCalls' = [wsCalls EXCEPT ![id] = "returned"]
    /\ UNCHANGED <<pipeVars, gwVars, admVars, poolVars, matched, svcVars>>

\* The calls made so far from outside createWorkspace
OutsideCalls == {k \in 1..Len(wsDone) : wsDone[k].op # "createWorkspace"}

\* writeFile called for an agent id by a tool of the agent
WriteFileCall(id) ==
    /\ Cardinality(OutsideCalls) < MaxWsCalls
    /\ wsDone' = Append(wsDone,
                   [op |-> "writeFile", agentId |-> id,
                    error |-> writeFile(id, "components/index.tsx"),
                    hadWorkspace |-> WorkspaceOf(id) # {}])
    /\ UNCHANGED <<workspaces, activeAgents, wsCalls, pipeVars, gwVars, admVars,
                   poolVars, matched, svcVars>>

\* executeCommand called for an agent id by a tool of the agent; the status
\* is ready again when the command has settled
ExecuteCommandCall(id) ==
    /\ Cardinality(OutsideCalls) < MaxWsCalls
    /\ \E fails \in BOOLEAN :
         wsDone' = Append(wsDone,
                     [op |-> "executeCommand", agentId |-> id,
                      error |-> executeCommand(id, "npm run build", fails),
                      hadWorkspace |-> WorkspaceOf(id) # {}])
    /\ UNCHANGED <<workspaces, activeAgents, wsCalls, pipeVars, gwVars, admVars,
                   poolVars, matched, svcVars>>

NextWorkspace ==
    \E id \in AgentIds :
       \/ createAgent(id)
       \/ createWorkspace_Mkdir(id)
       \/ createWorkspace_Write(id)
       \/ WriteFileCall(id)
       \/ ExecuteCommandCall(id)

SpecWorkspace == InitGateway /\ [][NextWorkspace]_vars

(* ------------------ the pool of transpiled code: vmPool ---------------- *)

\* The sources are sequences of bytes (Buffer.from(functionCode)).
\* Twenty-four bytes that two sources begin with
Preamble == [i \in 1..24 |-> 97]
SrcA == Preamble \o <<49>>
SrcB == Preamble \o <<50>>
SrcC == <<98>>
SrcD == <<98, 49>>
\* A source the transpiler rejects
SrcBad == <<33>>
PoolSources == {SrcA, SrcB, SrcC, SrcD, SrcBad}
PoolFunctions == {"f1", "f2"}

\* The padding character "=" beside the sixty-four digits 0..63
Pad == 64
RECURSIVE Base64(_)
\* Buffer.toString("base64"): three bytes give four digits of six bits, and
\* the last one or two bytes give two or three digits and padding
Base64(bytes) ==
    IF Len(bytes) = 0 THEN <<>>
    ELSE IF Len(bytes) = 1
      THEN <<bytes[1] \div 4, (bytes[1] % 4) * 16, Pad, Pad>>
    ELSE IF Len(bytes) = 2
      THEN <<bytes[1] \div 4, (bytes[1] % 4) * 16 + bytes[2] \div 16,
             (bytes[2] % 16) * 4, Pad>>
    ELSE <<bytes[1] \div 4, (bytes[1] % 4) * 16 + bytes[2] \div 16,
           (bytes[2] % 16) * 4 + bytes[3] \div 64, bytes[3] % 64>>
         \o Base64(SubSeq(bytes, 4, Len(bytes)))
\* String.prototype.slice(0, end)
Slice(str, end) == SubSeq(str, 1, IF end < Len(str) THEN end ELSE Len(str))

\* const cacheKey = `${functionId}_${Buffer.from(functionCode)
\*                                   .toString("base64").slice(0, 32)}`
PoolKey(functionId, functionCode) ==
    <<functionId, Slice(Base64(functionCode), KeyLength)>>

\* transpileManager.transpile(functionCode, transpileOptions): the options
\* are fixed, the result is a function of the source
PoolTranspile(functionCode) ==
    [success |-> functionCode # SrcBad, transpiledCode |-> <<"js", functionCode>>]

\* this.vmPool.has(cacheKey), get, set, delete.  An entry carries, as
\* history, the time it was last set or returned.
PoolHas(key) == \E e \in vmPool : e.key = key
PoolGet(key) == CHOOSE e \in vmPool : e.key = key
PoolSet(key, transpiledCode) ==
    {e \in vmPool : e.key # key}
      \cup {[key |-> key, transpiledCode |-> transpiledCode, lastUse |-> now]}
PoolDelete(key) == {e \in vmPool : e.key # key}

\* A settled call
Looked(c, returned, error) ==
    [functionId |-> c.functionId, functionCode |-> c.functionCode,
     returned |-> returned, error |-> error]

\* getOrCreateTranspiledCode(functionId, functionCode, environment) up to
\* its await: the hit returns the entry, the miss starts the transpiler
getOrCreateTranspiledCode(functionId, functionCode) ==
    /\ Len(lookupsDone) + Cardinality(lookups) < MaxLookups
    /\ LET key == PoolKey(functionId, functionCode)
           c == [id |-> Len(lookupsDone) + Cardinality(lookups) + 1,
                 functionId |-> functionId, functionCode |-> functionCode,
                 cacheKey |-> key]
       IN  IF PoolHas(key)
             THEN /\ lookupsDone' =
                       Append(lookupsDone,
                              Looked(c, PoolGet(key).transpiledCode, ""))
                  /\ vmPool' = PoolSet(key, PoolGet(key).transpiledCode)
                  /\ UNCHANGED <<lookups, poolTimers, wsVars>>
             ELSE /\ lookups' = lookups \cup {c}
                  /\ UNCHANGED <<lookupsDone, vmPool, poolTimers, wsVars>>
    /\ UNCHANGED <<pipeVars, gwVars, admVars, matched, svcVars, wsVars>>

\* getOrCreateTranspiledCode after the await of transpile: throw, or set
\* the entry, arm the timer and return
TranspileReturn ==
    /\ \E c \in lookups :
         LET result == PoolTranspile(c.functionCode)
         IN  /\ lookups' = lookups \ {c}
             /\ IF ~result.success
                  THEN /\ lookupsDone' =
                            Append(lookupsDone,
                                   Looked(c, <<>>, "Code transpilation failed"))
                       /\ UNCHANGED <<vmPool, poolTimers, wsVars>>
                  ELSE /\ vmPool' = PoolSet(c.cacheKey, result.transpiledCode)
                       /\ poolTimers' = poolTimers \cup
                            {[key |-> c.cacheKey, at |-> now + PoolTTL]}
                       /\ lookupsDone' =
                            Append(lookupsDone, Looked(c, result.transpiledCode, ""))
    /\ UNCHANGED <<pipeVars, gwVars, admVars, matched, svcVars, wsVars>>

\* The callback of setTimeout runs: this.vmPool.delete(cacheKey)
PoolTimeout ==
    /\ \E t \in poolTimers :
         /\ t.at <= now
         /\ vmPool' = PoolDelete(t.key)
         /\ poolTimers' = poolTimers \ {t}
    /\ UNCHANGED <<lookups, lookupsDone, pipeVars, gwVars, admVars, matched, svcVars, wsVars>>

\* The steps of the clock here: a millisecond, and a millisecond less than
\* the timer's delay
PoolTickSteps == {1, PoolTTL - 1}
\* The clock advances, never past a timer that is due
PoolTick ==
    /\ ticks < MaxTicks
    /\ \E d \in PoolTickSteps :
         /\ \A t \in poolTimers : now + d <= t.at
         /\ now' = now + d
    /\ ticks' = ticks + 1
    /\ UNCHANGED <<store, storeVer, storeHist, changedAt, extensionCache,
                   loopBlocked, req, pc, startedAt, context, loaded, matching,
                   phase, todo, results, functionLogs, outcome, nextCalls,
                   originCalls, origin, gwVars, admVars, poolVars, matched, svcVars, wsVars>>

NextPool ==
    \/ \E f \in PoolFunctions, code \in PoolSources :
         getOrCreateTranspiledCode(f, code)
    \/ TranspileReturn
    \/ PoolTimeout
    \/ PoolTick

SpecPool == InitGateway /\ [][NextPool]_vars

(* ------------------------- the two routeMatches ------------------------ *)

\* Paths and patterns are sequences of characters.
\* The request paths asked about
RoutePaths ==
    { <<"/", "a", "p", "i">>,
      <<"/", "a", "p", "i", "/", "u", "s", "e", "r", "s">>,
      <<"/", "a", "p">>,
      <<"/", "u", "s", "e", "r", "s", "/", "5">>,
      <<"/", "u", "s", "e", "r", "s", "/">>,
      <<"/", "u", "/", "b">>,
      <<"/", "A", "P", "I">> }
\* The patterns of the routes: the paths, parameterized patterns, and
\* regular expressions, three of which new RegExp rejects
RoutePatterns ==
    RoutePaths \cup
    { <<"/", "u", "s", "e", "r", "s", "/", ":", "i", "d">>,
      <<"/", "u", "/", "a", ":">>,
      <<"^", "/", "a", "p", "i", "$">>,
      <<"/", "a", ".", "i">>,
      <<"(">>,
      <<"[", "a">>,
      <<"*", "a">> }
PatternTypes == {"exact", "prefix", "regex", "glob"}
RouteMethods == {"GET", "POST", "get", "*", "ALL"}
RequestMethods == {"GET", "POST", "get"}

\* String.prototype.startsWith with the arguments the other way round
PathStartsWith_Swapped(str, searchString) ==
    /\ Len(str) <= Len(searchString)
    /\ SubSeq(searchString, 1, Len(str)) = str

\* String.prototype.startsWith
PathStartsWith(str, searchString) ==
    /\ Len(searchString) <= Len(str)
    /\ SubSeq(str, 1, Len(searchString)) = searchString

\* new RegExp(pattern) throws a SyntaxError: a group or a character class
\* that is not closed, or a quantifier with nothing to repeat
RegExpThrows(pattern) ==
    LET opens(c) == Cardinality({i \in 1..Len(pattern) : pattern[i] = c})
    IN  \/ opens("(") # opens(")")
        \/ opens("[") # opens("]")
        \/ Len(pattern) >= 1 /\ pattern[1] \in {"*", "+", "?"}

\* regex.test(path) for the expressions made of characters, ".", a leading
\* "^" and a trailing "$": the expression is searched for anywhere in the
\* path unless it is anchored
RegExpTest(pattern, path) ==
    LET atStart == Len(pattern) >= 1 /\ pattern[1] = "^"
        atEnd == Len(pattern) >= 1 /\ pattern[Len(pattern)] = "$"
        atoms == SubSeq(pattern, IF atStart THEN 2 ELSE 1,
                        IF atEnd THEN Len(pattern) - 1 ELSE Len(pattern))
    IN  \E i \in 1..(Len(path) + 1) :
          /\ atStart => i = 1
          /\ i + Len(atoms) - 1 <= Len(path)
          /\ atEnd => i + Len(atoms) - 1 = Len(path)
          /\ \A k \in 1..Len(atoms) :
               atoms[k] = "." \/ atoms[k] = path[i + k - 1]

\* A try block without its catch: the exception goes to the caller
Try_NoCatch(threw, value) == [threw |-> threw, value |-> value]

\* try { return value } catch { return false }
Try(threw, value) == [threw |-> FALSE, value |-> IF threw THEN FALSE ELSE value]

\* ExtensionService.routeMatches that takes an exact pattern for a prefix
ExtensionService_routeMatches_Prefix(route, method, path) ==
    IF route.method # "*" /\ route.method # method
      THEN [threw |-> FALSE, value |-> FALSE]
    ELSE [threw |-> FALSE, value |-> PathStartsWith(path, route.pathPattern)]

\* ExtensionService.routeMatches(route, method, path): what it returns, or
\* that it throws
ExtensionService_routeMatches(route, method, path) ==
    IF route.method # "*" /\ route.method # method
      THEN [threw |-> FALSE, value |-> FALSE]
    ELSE CASE route.patternType = "exact" ->
                [threw |-> FALSE, value |-> route.pathPattern = path]
           [] route.patternType = "prefix" ->
                [threw |-> FALSE, value |-> PathStartsWith(path, route.pathPattern)]
           [] route.patternType = "regex" ->
                Try(RegExpThrows(route.pathPattern),
                    IF RegExpThrows(route.pathPattern) THEN FALSE
                    ELSE RegExpTest(route.pathPattern, path))
           [] OTHER -> [threw |-> FALSE, value |-> FALSE]

\* The routes asked about
Routes ==
    [method : RouteMethods, pathPattern : RoutePatterns, patternType : PatternTypes]

\* ExtensionService.routeMatches is applied
AskService ==
    /\ matched.by = "none"
    /\ \E route \in Routes, method \in RequestMethods, path \in RoutePaths :
         matched' = [by |-> "ExtensionService", route |-> route,
                     method |-> method, path |-> path,
                     result |-> ExtensionService_routeMatches(route, method, path)]
    /\ UNCHANGED <<pipeVars, gwVars, admVars, poolVars, svcVars, wsVars>>

\* ExtensionMiddleware.routeMatches is applied
AskMiddleware ==
    /\ matched.by = "none"
    /\ \E route \in Routes, method \in RequestMethods, path \in RoutePaths :
         matched' = [by |-> "ExtensionMiddleware", route |-> route,
                     method |-> method, path |-> path,
                     result |-> [threw |-> FALSE,
                                 value |-> routeMatches(route.pathPattern, route.method,
                                                        path, method)]]
    /\ UNCHANGED <<pipeVars, gwVars, admVars, poolVars, svcVars, wsVars>>

NextRoutes ==
    \/ AskService
    \/ AskMiddleware

SpecRoutes == InitGateway /\ [][NextRoutes]_vars

(* ------------- ExtensionService.getExtensionsForRoute ------------------ *)

\* The request asked about, and a path that does not match it
ForMethod == "GET"
ForPath == <<"/", "a", "p", "i">>
\* The priorities of the bindings; 0 stands for the column's null as well
\* (r.priority || 0)
Priorities == {0, 5, 10}
\* The bindings of an extension: exact patterns on the request's path and on
\* another path
ForRoutes ==
    [method : {ForMethod}, pathPattern : {ForPath, <<"/", "a", "p">>},
     patternType : {"exact"}, priority : Priorities]
\* The extensions rows of the application in the order of createdAt, each
\* with its routes
ForExtensions ==
    {<<a, b>> : a \in [id : {"A"}, enabled : BOOLEAN,
                       routes : {<<r>> : r \in ForRoutes}
                                \cup {<<r, q>> : r \in ForRoutes, q \in ForRoutes}],
               b \in [id : {"B"}, enabled : BOOLEAN,
                       routes : {<<r>> : r \in ForRoutes}]}

RECURSIVE Filter(_, _)
\* Array.prototype.filter with the predicate given as the set it holds on
Filter(arr, keep) ==
    IF arr = <<>> THEN <<>>
    ELSE (IF Head(arr) \in keep THEN <<Head(arr)>> ELSE <<>>)
           \o Filter(Tail(arr), keep)

\* Math.max(...xs) of a nonempty list
MathMax(xs) == CHOOSE m \in {xs[i] : i \in 1..Len(xs)} :
                 \A i \in 1..Len(xs) : xs[i] <= m

\* Math.max(...a.routes.map((r) => r.priority || 0))
SortKey(e, method, path) ==
    MathMax([i \in 1..Len(e.routes) |-> e.routes[i].priority])

RECURSIVE InsertSorted(_, _, _, _)
\* e put into a list sorted by descending key, behind the elements of equal
\* key
InsertSorted(e, sorted, method, path) ==
    IF sorted = <<>> THEN <<e>>
    ELSE IF SortKey(Head(sorted), method, path) >= SortKey(e, method, path)
      THEN <<Head(sorted)>> \o InsertSorted(e, Tail(sorted), method, path)
      ELSE <<e>> \o sorted

RECURSIVE SortByKey(_, _, _)
\* Array.prototype.sort((a, b) => bPriority - aPriority), which is stable
SortByKey(arr, method, path) ==
    IF arr = <<>> THEN <<>>
    ELSE InsertSorted(arr[Len(arr)],
                      SortByKey(SubSeq(arr, 1, Len(arr) - 1), method, path),
                      method, path)

\* ExtensionService.getActiveExtensions: the enabled rows, createdAt ascending
getActiveExtensions(rows) ==
    Filter(rows, {rows[i] : i \in {j \in 1..Len(rows) : rows[j].enabled}})

\* ExtensionService.getExtensionsForRoute
getExtensionsForRoute(rows, method, path) ==
    LET extensions == getActiveExtensions(rows)
        passing ==
          {extensions[i] : i \in
             {j \in 1..Len(extensions) :
                \E k \in 1..Len(extensions[j].routes) :
                  ExtensionService_routeMatches(extensions[j].routes[k],
                                                method, path).value}}
    IN  SortByKey(Filter(extensions, passing), method, path)

\* getExtensionsForRoute is applied
AskForRoute ==
    /\ matched.by = "none"
    /\ \E rows \in ForExtensions :
         matched' = [by |-> "getExtensionsForRoute", rows |-> rows,
                     method |-> ForMethod, path |-> ForPath,
                     result |-> getExtensionsForRoute(rows, ForMethod, ForPath)]
    /\ UNCHANGED <<pipeVars, gwVars, admVars, poolVars, svcVars, wsVars>>

SpecForRoute == InitGateway /\ [][AskForRoute]_vars

(* ------------------------- pipeline properties ------------------------ *)

\* handle of request r has returned
Done(r) == pc[r] = "done"
\* executeFunctions pushed a successful result in the replace phase
HasSuccessfulReplace(r) ==
    \E i \in 1..Len(results[r]["replace"]) : results[r]["replace"][i].success
\* handle of r went past the replace step to the proxy step
OnProxyPath(r) ==
    /\ Done(r)
    /\ Len(matching[r].data) > 0
    /\ ~HasSuccessfulReplace(r)
    /\ Len(results[r]["replace"]) = Len(OfType(matching[r].data, {"replace"}))
\* the ways handle ends with next
EndedBy(r, why) == outcome[r].kind = "next" /\ outcome[r].why = why
\* What the results of a phase would be had every hook that returns
\* contributed its return value
RECURSIVE Returned(_)
Returned(res) ==
    IF res = <<>> THEN <<>>
    ELSE <<[success |-> Head(res).code = "returns",
            data |-> Head(res).returned]>> \o Returned(Tail(res))

\* C1: in every phase the hooks run from the highest priority down, and
\* hooks of equal priority run in the order of their registration
C1_PriorityOrder ==
    \A r \in Reqs : \A ph \in Phases :
      LET res == results[r][ph]
      IN  \A i, j \in 1..Len(res) :
            i < j => \/ res[i].priority > res[j].priority
                     \/ /\ res[i].priority = res[j].priority
                        /\ res[i].functionId < res[j].functionId

\* C2: when a replace hook succeeds, what the first successful one returned
\* is the response, the origin is not called and no after or transform hook
\* runs
C2_ReplaceIsResponse ==
    \A r \in Reqs :
      Done(r) /\ HasSuccessfulReplace(r) =>
        LET res == results[r]["replace"]
            first == CHOOSE i \in 1..Len(res) :
                       res[i].success /\ \A j \in 1..(i - 1) : ~res[j].success
            out == res[first].returned
        IN  /\ outcome[r].kind = "response"
            /\ res[first].code = "returns" =>
                 /\ outcome[r].body = Get(out, "body")
                 /\ outcome[r].status = Get(out, "status")
            /\ originCalls[r] = 0
            /\ results[r]["after"] = <<>>

\* C3: when a before hook has failed (and no replace hook answered), the
\* before hooks after it have still run, and handle went through the proxy
\* step and produced the response
C3_FailedHookIsolated ==
    \A r \in Reqs :
      /\ OnProxyPath(r)
      /\ \E i \in 1..Len(results[r]["before"]) : ~results[r]["before"][i].success
      => /\ Len(results[r]["before"]) = Len(OfType(matching[r].data, {"before"}))
         /\ outcome[r].kind = "response"

\* C4: no hook runs on past its timeout: handle never waits for ever on a
\* hook, and a hook whose handler does not return is recorded as failed with
\* the timeout error
C4_HungHookTimesOut ==
    \A r \in Reqs :
      /\ pc[r] # "stuck"
      /\ \A ph \in Phases : \A i \in 1..Len(results[r][ph]) :
           LET x == results[r][ph][i]
           IN  x.code = "hangs" =>
                 /\ ~x.success
                 /\ x.error = "Code execution timeout"

\* C5: every before hook is given the request with the modifications of the
\* before hooks that ran before it
C5_BeforeCumulative ==
    \A r \in Reqs :
      LET res == results[r]["before"]
      IN  \A i \in 1..Len(res) :
            res[i].seen = ApplyBefore(OrigRequest,
                                      Returned(SubSeq(res, 1, i - 1)))

\* C6: on the proxy path, the origin having answered, the response is the
\* origin's body shallow-merged with the results of the successful after and
\* transform hooks, with the last status and header overrides
C6_ProxyMerge ==
    \A r \in Reqs :
      /\ OnProxyPath(r)
      /\ origin[r] = "up"
      /\ ~EndedBy(r, "components")
      => LET after == Returned(results[r]["after"])
             merged == mergeResults(Get(OriginResponse, "data"), after)
         IN  /\ outcome[r].kind = "response"
             /\ outcome[r].body \in
                  {injectComponents(merged, comps) : comps \in {<<>>, <<"c1">>}}
             /\ outcome[r].status =
                  FinalStatus(Get(OriginResponse, "status"), after)
             /\ outcome[r].headers =
                  FinalHeaders(Get(OriginResponse, "headers"), after)

\* C7: the origin is called at most once per request, and when the call
\* fails the caller gets a 502 response
C7_OriginFailure502 ==
    \A r \in Reqs :
      /\ originCalls[r] <= 1
      /\ Done(r) /\ origin[r] = "down" =>
           /\ outcome[r].kind = "response"
           /\ outcome[r].status = Num(502)

\* C15: when replace hooks ran and every one of them failed, handle goes on
\* to the proxy step: the origin (being up) is called once, as without a
\* replace hook, and every after and transform hook runs
C15_AllReplaceFailedFallsThrough ==
    \A r \in Reqs :
      /\ OnProxyPath(r)
      /\ results[r]["replace"] # <<>>
      /\ origin[r] = "up"
      => /\ originCalls[r] = 1
         /\ Len(results[r]["after"]) =
              Len(OfType(matching[r].data, {"after", "transform"}))

\* C16: the request that reaches the origin is the inbound one with the
\* headers, body and query of every successful before modification merged
\* in, in the order of execution: on the proxy path with the origin up the
\* origin is called, and what handle passes on is that merged request
C16_OriginGetsModifiedRequest ==
    \A r \in Reqs :
      OnProxyPath(r) /\ origin[r] = "up" =>
        LET expected == ApplyBefore(OrigRequest, Returned(results[r]["before"]))
            px == proxyToOriginal(ProxyReq(context[r]), TRUE)
        IN  /\ originCalls[r] = 1
            /\ px.fetched
            /\ context[r].request = expected
            /\ Get(ProxyReq(context[r]), "headers") = expected.headers
            /\ Get(ProxyReq(context[r]), "body") = expected.body

\* C17: a request without the x-user-id header bypasses the middleware: no
\* lookup of the matching set, no hook executed, no log entry, no call of
\* the origin, and next called exactly once
C17_NoUserBypass ==
    \A r \in Reqs :
      req[r].userId = "" =>
        /\ pc[r] \in {"idle", "start", "done"}
        /\ ~matching[r].got
        /\ loaded[r] = NoLoad
        /\ ~extensionCache[cacheKey(r)].present
        /\ results[r] = NoResults
        /\ \A k \in 1..Len(functionLogs) : functionLogs[k].request # r
        /\ originCalls[r] = 0
        /\ nextCalls[r] <= 1
        /\ Done(r) => nextCalls[r] = 1 /\ EndedBy(r, "nouser")

\* C17: handle of a request without the header has returned, having passed
\* it on with next, the store holding enabled bindings on its route
C17_Witness ==
    \E r \in Reqs :
      /\ req[r].userId = ""
      /\ Done(r)
      /\ EndedBy(r, "nouser")
      /\ nextCalls[r] = 1
      /\ \E i \in 1..Len(store) : routeMatches(store[i].routePath, store[i].routeMethod,
                                          req[r].path, req[r].method)

\* Every hook of the given types in the matching set of r has its result
Finished(r, ph, T) ==
    Len(results[r][ph]) = Len(OfType(matching[r].data, T))

\* C28: the phases of a request come in the order Matching, Before, Replace,
\* Proxy, After/Transform, Merge, Respond.  Every before hook has finished
\* when a replace hook starts; the proxy step and the after hooks come when
\* every before and replace hook has finished; before and replace hooks see
\* no response and after/transform hooks see the origin's; and a request on
\* the proxy path whose origin answers goes through the after/transform
\* hooks to its response
C28_PhaseOrder ==
    \A r \in Reqs :
      /\ phase[r] \in {"replace", "after"} \/ pc[r] = "proxy" \/ originCalls[r] > 0
           => matching[r].got /\ Finished(r, "before", {"before"})
      /\ phase[r] = "after" \/ pc[r] = "proxy" \/ originCalls[r] > 0
           => \/ Finished(r, "replace", {"replace"})
              \/ HasSuccessfulReplace(r)
      /\ results[r]["after"] # <<>> => originCalls[r] = 1
      /\ \A ph \in {"before", "replace"} : \A i \in 1..Len(results[r][ph]) :
           ~results[r][ph][i].hasResponse
      /\ \A i \in 1..Len(results[r]["after"]) : results[r]["after"][i].hasResponse
      /\ OnProxyPath(r) /\ origin[r] = "up" =>
           /\ Finished(r, "after", {"after", "transform"})
           /\ outcome[r].kind = "response"

\* The results executeFunctions has pushed for request r, phase by phase
AllResults(r) ==
    results[r]["before"] \o results[r]["replace"] \o results[r]["after"]
\* The place in AllResults(r) of the result of the function
PlaceOf(r, functionId) ==
    CHOOSE j \in 1..Len(AllResults(r)) : AllResults(r)[j].functionId = functionId
\* The types of the hooks of a phase
TypesOf(ph) == IF ph = "after" THEN {"after", "transform"} ELSE {ph}

\* C30: executeFunctions returns one result per hook it was given, in the
\* order of the hooks; every log entry is the entry of one result of its
\* request, with that result's success flag, no result has two entries and
\* the entries of a request come in the order of its results; whether an
\* entry could be written does not change the results; and the log only
\* grows, by one entry at a time at its end
C30_OneResultOneLogEntry ==
    /\ [](\A r \in Reqs :
            /\ \A ph \in Phases : \A i \in 1..Len(results[r][ph]) :
                 /\ i <= Len(OfType(matching[r].data, TypesOf(ph)))
                 /\ results[r][ph][i].functionId =
                      OfType(matching[r].data, TypesOf(ph))[i].functionId
            /\ (pc[r] = "proxy" \/ Done(r)) /\ matching[r].got =>
                 /\ Finished(r, "before", {"before"})
                 /\ Finished(r, "replace", {"replace"}))
    /\ [](\A k \in 1..Len(functionLogs) :
            LET e == functionLogs[k]
            IN  /\ \E j \in 1..Len(AllResults(e.request)) :
                     /\ AllResults(e.request)[j].functionId = e.functionId
                     /\ AllResults(e.request)[j].success = e.success
                /\ \A l \in 1..(k - 1) :
                     functionLogs[l].request = e.request =>
                       PlaceOf(e.request, functionLogs[l].functionId)
                         < PlaceOf(e.request, e.functionId))
    /\ [][/\ Len(functionLogs') \in {Len(functionLogs), Len(functionLogs) + 1}
          /\ SubSeq(functionLogs', 1, Len(functionLogs)) = functionLogs]_vars

\* C30: handle has returned with three results, one of them a failure whose
\* log entry says so, and one entry that could not be written
C30_Witness ==
    /\ Done(1)
    /\ Len(AllResults(1)) = 3
    /\ Len(functionLogs) = 2
    /\ \E k \in 1..Len(functionLogs) : ~functionLogs[k].success
    /\ \E j \in 1..3 : AllResults(1)[j].success

\* C32: a request has no outcome while handle runs and exactly one when it
\* has returned, a response sent by the middleware without a call of next
\* or one call of next without a response; next is never called twice,
\* whether it was called because of a step that threw or rejects itself;
\* and the outcome of a finished request does not change
C32_ExactlyOneOutcome ==
    /\ [](\A r \in Reqs :
            /\ nextCalls[r] <= 1
            /\ ~Done(r) => outcome[r] = NoOutcome /\ nextCalls[r] = 0
            /\ Done(r) =>
                 \/ outcome[r].kind = "response" /\ nextCalls[r] = 0
                 \/ outcome[r].kind = "next" /\ nextCalls[r] = 1)
    /\ [][\A r \in Reqs :
            Done(r) => /\ outcome'[r] = outcome[r]
                       /\ nextCalls'[r] = nextCalls[r]
                       /\ Done(r)']_vars

\* C32: handle has passed a request without matching extension on with a
\* next that rejects
C32_Witness ==
    \E r \in Reqs :
      /\ Done(r)
      /\ req[r].next = "rejects"
      /\ EndedBy(r, "nomatch")
      /\ outcome[r].handle = "rejected"
      /\ nextCalls[r] = 1

\* C31: replace hooks are tried until one succeeds: a successful replace
\* result is the last result of the replace phase, and no log entry of a
\* replace hook is written for a hook that comes after the successful one
C31_ReplaceStopsAtSuccess ==
    \A r \in Reqs :
      \A i \in 1..Len(results[r]["replace"]) :
        results[r]["replace"][i].success => i = Len(results[r]["replace"])

\* The results of request r whose source matches a pattern of
\* validateCodeSecurity
InsecureResults(r) ==
    {<<ph, i>> \in Phases \X (1..NRows) :
       i <= Len(results[r][ph]) /\ results[r][ph][i].code = "insecure"}

\* C12: a hook whose source matches a disallowed pattern is rejected before
\* it is transpiled or executed: its handler is not invoked, its result is
\* a failure of the security validation, and no log entry calls it a success
C12_InsecureRejected ==
    /\ \A r \in Reqs : \A x \in InsecureResults(r) :
         LET res == results[r][x[1]][x[2]]
         IN  /\ ~res.success
             /\ ~res.invoked
             /\ res.data = Undefined
             /\ res.error = "Security validation failed"
    /\ \A k \in 1..Len(functionLogs) :
         store[functionLogs[k].functionId].functionCode = "insecure"
           => ~functionLogs[k].success

\* C12: a hook with a disallowed source was rejected and logged as failed
C12_Witness ==
    /\ \E r \in Reqs : InsecureResults(r) # {}
    /\ \E k \in 1..Len(functionLogs) :
         /\ store[functionLogs[k].functionId].functionCode = "insecure"
         /\ ~functionLogs[k].success

(* ------------------------- registry properties ------------------------ *)

\* Request r holds its matching set and keeps it
HoldsSnapshot(r) == matching[r].got => matching'[r] = matching[r]
\* Request r began when change v of the enabled set was more than a TTL old
StartedAfterTTL(r, v) == changedAt[v] + cacheExpiry < startedAt[r]

\* C10: a change of the persisted enabled set does not reach a request that
\* already holds its matching set, and it reaches every request that starts
\* once the TTL has elapsed since the change
C10_SnapshotThenRefresh ==
    /\ [][\A r \in Reqs : HoldsSnapshot(r)]_vars
    /\ [](\A r \in Reqs : \A v \in 1..storeVer :
            matching[r].got /\ StartedAfterTTL(r, v) => matching[r].ver >= v)

\* C36: a matching set that findMatchingExtensions returns from the cache
\* (the request got it at the moment it started, without a select of its
\* own) was read from the store at most cacheExpiry before that moment
C36_CacheStalenessBound ==
    \A r \in Reqs :
      matching[r].got /\ matching[r].readAt <= startedAt[r] =>
        startedAt[r] - matching[r].readAt <= cacheExpiry

\* The select of findMatchingExtensions of request r failed while the cache
\* held an entry for the request's key whose TTL had elapsed
ReloadFailedOverEntry(r) == EndedBy(r, "registry, stale entry")

\* C11: when the reload of the matching set fails after the TTL has elapsed,
\* the request is served the last good cached entry of its key: it goes on
\* with a matching set, not ended by the failure
C11_StaleServedOnReloadFailure ==
    \A r \in Reqs :
      ReloadFailedOverEntry(r) =>
        /\ matching[r].got
        /\ matching[r].data = extensionCache[cacheKey(r)].data

\* The bindings of version v of the store that are request r's: those of
\* its user, enabled and active, whose route matches
BindingsAt(r, v) ==
    {row \in {storeHist[v + 1][i] : i \in DOMAIN storeHist[v + 1]} :
       /\ WhereClause(row, req[r].userId)
       /\ routeMatches(row.routePath, row.routeMethod, req[r].path, req[r].method)}
\* The sequence data holds exactly those bindings, each once
IsViewOf(data, r, v) ==
    /\ {data[i] : i \in DOMAIN data} = BindingsAt(r, v)
    /\ Len(data) = Cardinality(BindingsAt(r, v))

\* C21: the matching set a request works with, and every cached set, is
\* the complete result of one load of the store: the bindings of the store
\* as it was at the moment of that load, none missing and none from another
\* moment
C21_SingleLoadView ==
    /\ \A r \in Reqs :
         matching[r].got => IsViewOf(matching[r].data, r, matching[r].ver)
    /\ \A r \in Reqs :
         extensionCache[cacheKey(r)].present =>
           IsViewOf(extensionCache[cacheKey(r)].data, r,
                    extensionCache[cacheKey(r)].ver)

\* C21: two requests hold matching sets of two different loads, both taken
\* after the store was changed twice and a set was cached
C21_Witness ==
    /\ storeVer = MaxEdits
    /\ \E r1, r2 \in Reqs :
         /\ matching[r1].got /\ matching[r2].got
         /\ matching[r1].ver # matching[r2].ver
         /\ matching[r1].data # matching[r2].data
         /\ extensionCache[cacheKey(r1)].present

(* ----------------------- transpiled code properties -------------------- *)

\* C22: getOrCreateTranspiledCode returns the transpilation of the code it
\* was given, also when another source of the same function was transpiled
\* before
C22_ReturnsGivenCode ==
    \A i \in 1..Len(lookupsDone) :
      lookupsDone[i].error = "" =>
        lookupsDone[i].returned =
          PoolTranspile(lookupsDone[i].functionCode).transpiledCode

\* C23: an entry of the pool that was not requested for ten minutes is
\* gone unless its timer is due at this very moment, and an entry that was
\* requested less than ten minutes ago stays in the pool
C23_IdleEviction ==
    /\ [](\A e \in vmPool :
            now - e.lastUse >= PoolTTL =>
              \E t \in poolTimers : t.key = e.key /\ t.at <= now)
    /\ [][\A e \in vmPool :
            now - e.lastUse < PoolTTL => \E e2 \in vmPool' : e2.key = e.key]_vars

(* ---------------------------- route properties ------------------------ *)

\* ExtensionService.routeMatches was asked, about a route of this kind
AskedService(kind) ==
    matched.by = "ExtensionService" /\ matched.route.patternType = kind
AskedMiddleware == matched.by = "ExtensionMiddleware"
\* No segment of the pattern begins with ":"
IsLiteralPattern(pattern) ==
    \A i \in 1..Len(pattern) :
      pattern[i] = ":" => i > 1 /\ pattern[i - 1] # "/"
\* The positions of the slashes, and the segments between them
SlashesOf(s) == {i \in 1..Len(s) : s[i] = "/"}
SegmentCount(s) == Cardinality(SlashesOf(s)) + 1
NthSlash(s, k) ==
    CHOOSE i \in SlashesOf(s) : Cardinality({j \in SlashesOf(s) : j <= i}) = k
Segment(s, k) ==
    SubSeq(s, IF k = 1 THEN 1 ELSE NthSlash(s, k - 1) + 1,
              IF k = SegmentCount(s) THEN Len(s) ELSE NthSlash(s, k) - 1)

\* C24: for a route of kind exact whose method is the wildcard or equals the
\* request method, routeMatches is true exactly when the path is identical
\* to the pattern, and with another method it is false whatever the path;
\* the same for ExtensionMiddleware.routeMatches, whose routes carry no
\* kind, and a pattern without a parameter segment
C24_ExactMatch ==
    /\ AskedService("exact") =>
         matched.result =
           [threw |-> FALSE,
            value |-> /\ matched.route.method \in {"*", matched.method}
                      /\ matched.route.pathPattern = matched.path]
    /\ AskedMiddleware /\ IsLiteralPattern(matched.route.pathPattern) =>
         matched.result.value =
           (/\ matched.route.method \in {"ALL", matched.method}
            /\ matched.route.pathPattern = matched.path)

\* C24: an exact route with the wildcard method was asked about the path
\* that is its pattern, and matched
C24_Witness ==
    /\ AskedService("exact")
    /\ matched.route.method = "*"
    /\ matched.route.pathPattern = matched.path
    /\ matched.result.value

\* C25: for a route of kind prefix (its method accepting the request's),
\* routeMatches is true exactly when the path begins with the characters of
\* the pattern: "/api" matches "/api/users" and does not match "/ap"
C25_PrefixMatch ==
    AskedService("prefix") =>
      matched.result =
        [threw |-> FALSE,
         value |-> /\ matched.route.method \in {"*", matched.method}
                   /\ Len(matched.route.pathPattern) <= Len(matched.path)
                   /\ \A i \in 1..Len(matched.route.pathPattern) :
                        matched.path[i] = matched.route.pathPattern[i]]

\* C25: the prefix route "/api" was asked about "/api/users", and matched
C25_Witness ==
    /\ AskedService("prefix")
    /\ matched.route.pathPattern = <<"/", "a", "p", "i">>
    /\ matched.path = <<"/", "a", "p", "i", "/", "u", "s", "e", "r", "s">>
    /\ matched.result.value

\* C26: ExtensionMiddleware.routeMatches (the method accepting) is true
\* exactly when pattern and path have the same number of segments between
\* slashes and every segment of the pattern equals the segment of the path
\* at its place or begins with ":"
C26_ParameterMatch ==
    AskedMiddleware =>
      LET pattern == matched.route.pathPattern
          path == matched.path
      IN  matched.result.value =
            (/\ matched.route.method \in {"ALL", matched.method}
             /\ SegmentCount(pattern) = SegmentCount(path)
             /\ \A k \in 1..SegmentCount(pattern) :
                  \/ Segment(pattern, k) = Segment(path, k)
                  \/ /\ Segment(pattern, k) # <<>>
                     /\ Segment(pattern, k)[1] = ":")

\* C26: the pattern "/users/:id" was asked about "/users/5", and matched
C26_Witness ==
    /\ AskedMiddleware
    /\ matched.route.pathPattern = <<"/", "u", "s", "e", "r", "s", "/", ":", "i", "d">>
    /\ matched.path = <<"/", "u", "s", "e", "r", "s", "/", "5">>
    /\ matched.result.value

\* C27: for a route of kind regex whose pattern new RegExp rejects,
\* routeMatches returns false for every method and path, and does not throw
C27_InvalidRegexNoMatch ==
    AskedService("regex") /\ RegExpThrows(matched.route.pathPattern) =>
      matched.result = [threw |-> FALSE, value |-> FALSE]

\* C27: a regex route with the pattern "(" and an accepting method was
\* asked about, and the answer was false
C27_Witness ==
    /\ AskedService("regex")
    /\ matched.route.pathPattern = <<"(">>
    /\ matched.route.method = matched.method
    /\ matched.result = [threw |-> FALSE, value |-> FALSE]

\* The extensions executeFunctions was given in the phase request r is in
GivenTo(r) ==
    OfType(matching[r].data,
           IF phase[r] = "after" THEN {"after", "transform"} ELSE {phase[r]})

MatchingPriorities(e, method, path) ==
    {e.routes[k].priority : k \in
       {j \in 1..Len(e.routes) :
          ExtensionService_routeMatches(e.routes[j], method, path).value}}

\* C39: getExtensionsForRoute returns exactly the enabled extensions that
\* have a binding matching the request, each once, and no extension comes
\* before one whose matching bindings all have a higher priority than every
\* matching binding of its own
C39_ForRouteByMatchedPriority ==
    matched.by = "getExtensionsForRoute" =>
      LET res == matched.result
      IN  /\ {res[i] : i \in 1..Len(res)} =
               {matched.rows[i] : i \in
                  {j \in 1..Len(matched.rows) :
                     /\ matched.rows[j].enabled
                     /\ MatchingPriorities(matched.rows[j], matched.method,
                                           matched.path) # {}}}
          /\ \A i, j \in 1..Len(res) : i # j => res[i] # res[j]
          /\ \A i, j \in 1..Len(res) :
               i < j =>
                 \E x \in MatchingPriorities(res[i], matched.method, matched.path),
                    y \in MatchingPriorities(res[j], matched.method, matched.path) :
                   x >= y

(* ------------------ installation and version properties --------------- *)

\* C13: an installation with a declared schema has its table; once the
\* pair is uninstalled no table is left without a registration; and a table
\* identifier that was dropped is never given out again by a later install
C13_InstallRoundTrip ==
    /\ \A x \in userExtensions :
         x.dataTableName # NoTable => \E t \in tables : t.name = x.dataTableName
    /\ \A t \in tables : \E x \in userExtensions : x.dataTableName = t.name
    /\ \A x \in userExtensions : x.dataTableName \notin dropped

\* No call of the extension service is in progress
Quiescent == \A p \in Procs : svc[p] = SvcIdle

\* C33: whenever every install and uninstall attempt has settled, committed
\* or rolled back, a table exists if and only if an installation record
\* references it
C33_TableIffRecord ==
    Quiescent =>
      /\ \A t \in tables : \E x \in userExtensions : x.dataTableName = t.name
      /\ \A x \in userExtensions :
           x.dataTableName # NoTable => \E t \in tables : t.name = x.dataTableName

\* C34: a pair of user and extension never has two installation records;
\* and an install that throws 'Extension already installed' leaves the
\* records, the tables and installCount as they were
C34_OneRecordPerPair ==
    /\ [](\A i \in Installable : Cardinality(RowsOf(i[1], i[2])) <= 1)
    /\ [][(/\ Len(svcDone') = Len(svcDone) + 1
           /\ svcDone'[Len(svcDone')].error = "Extension already installed")
          => UNCHANGED <<userExtensions, tables, installCount, wsVars>>]_vars

\* The updateExtension calls that have committed
CommittedUpdates ==
    {k \in 1..Len(svcDone) : svcDone[k].op = "update" /\ svcDone[k].error = ""}

\* C35: no two version records of the extension carry the same version
\* number, and once every updateExtension call has settled the version
\* counter is the initial 1 plus the number of updates that committed
C35_VersionsUnique ==
    /\ \A v, w \in extensionVersions : v.version = w.version => v = w
    /\ Quiescent /\ extension.exists =>
         extension.version = 1 + Cardinality(CommittedUpdates)

\* C14: the current code is the code of the version record numbered by the
\* version counter; the counter never decreases; and a change of the current
\* code comes with a higher counter and a new version record
C14_VersionsAppendOnly ==
    /\ [](extension.exists =>
            /\ \E v \in extensionVersions :
                 v.version = extension.version /\ v.code = extension.code
            /\ \A v \in extensionVersions :
                 v.version = extension.version => v.code = extension.code)
    /\ [][extension.exists =>
            /\ extension'.exists
            /\ extension'.version >= extension.version
            /\ extension'.code # extension.code =>
                 /\ extension'.version > extension.version
                 /\ extensionVersions' # extensionVersions]_vars

\* C20: every column type of a declared schema is checked against the
\* allowed set before the table is created: no table has a column of a
\* declared type outside the set, and no extension whose schema declares
\* such a type is installed
C20_ColumnTypesValidated ==
    /\ \A t \in tables : \A i \in 1..Len(t.columns) :
         t.columns[i].declared \in AllowedTypes
    /\ \A x \in userExtensions :
         \A i \in 1..Len(SchemaOf(x.extensionId)) :
           SchemaOf(x.extensionId)[i].type \in AllowedTypes

(* ------------------------ workspace properties ------------------------ *)

\* C40: createWorkspace for an agent id without workspace returns without
\* error and leaves a workspace with status ready registered for the id,
\* and the agent's workspaceReady is true once createAgent has returned;
\* writeFile and executeCommand for an id without workspace throw 'No
\* workspace found'
C40_WorkspaceReady ==
    /\ \A k \in 1..Len(wsDone) :
         wsDone[k].op = "createWorkspace" /\ ~wsDone[k].hadWorkspace =>
           /\ wsDone[k].error = ""
           /\ \E w \in WorkspaceOf(wsDone[k].agentId) : w.status = "ready"
           /\ \E a \in activeAgents :
                a.id = wsDone[k].agentId /\ a.workspaceReady
    /\ \A k \in 1..Len(wsDone) :
         wsDone[k].op \in {"writeFile", "executeCommand"}
           /\ ~wsDone[k].hadWorkspace =>
             wsDone[k].error = NoWorkspaceFound

(* ------------------------- gateway properties ------------------------- *)

\* The call of the extension service that has just settled
JustSettled == svcDone'[Len(svcDone')]

\* C38: a context.database call that begins after uninstallExtension has
\* completed gives storage no statement on the table the uninstall dropped
\* (unless a later install has created the name again); and an uninstall of
\* a pair without installation record throws 'Extension not installed' and
\* changes neither the records, the tables nor installCount
C38_DroppedTableRejected ==
    /\ [][gw.pc = "run" =>
            \A k \in (Len(dbLog) + 1)..Len(dbLog') :
              dbLog'[k].tables \cap (gw.gone \cap Gone) = {}]_vars
    /\ [][/\ svcDone' # svcDone
          /\ svc' = svc
          /\ JustSettled.op = "uninstall"
          /\ RowsOf(JustSettled.call.userId, JustSettled.call.extensionId) = {}
          => JustSettled.error = "Extension not installed"]_vars
    /\ [][svcDone' # svcDone /\ JustSettled.error = "Extension not installed"
            => /\ RowsOf(JustSettled.call.userId,
                         JustSettled.call.extensionId) = {}
               /\ UNCHANGED <<userExtensions, tables, installCount, wsVars>>]_vars

\* The logical names a hook could pass for a physical identifier: were
\* `ext_${userId}_${n}` the identifier, n would be one of its ends
EndsOf(name) == {SubSeq(name, i, Len(name)) : i \in 1..Len(name)}

\* C37: every table that installExtension created for a user can be named
\* by that user's hooks: for some logical name the access check passes and
\* the identifier the gateway derives is a safe identifier and is the
\* registered dataTableName
C37_InstalledTableReachable ==
    \A x \in userExtensions :
      x.dataTableName # NoTable =>
        \E n \in EndsOf(x.dataTableName) :
          /\ validateTableAccess(
               getUserExtensionTables(userExtensions, x.userId), x.userId, n)
          /\ safeIdentifier(FullTableName(x.userId, n))
          /\ FullTableName(x.userId, n) = x.dataTableName

Mutators == {"insert", "update", "delete"}
\* The statements db.execute was given by call number i
IssuedBy(i) == {k \in 1..Len(dbLog) : dbLog[k].by.call = i}
\* A settled insert, update or delete whose table was at no moment of the
\* call registered for the user the gateway was made for
UnregisteredCall(c) == c.op \in Mutators /\ ~c.everRegistered

C9_ScopedToUserAndExtension ==
    \A k \in 1..Len(dbLog) : \A t \in dbLog[k].tables :
      \A x \in userExtensions :
        x.dataTableName = t =>
          /\ x.userId = dbLog[k].by.userId
          /\ x.extensionId = dbLog[k].by.extensionId

\* C18: database.query gives storage only statements that contain none of
\* the words drop, alter, create, truncate, insert, update, delete in any
\* letter case and that read no table outside the caller's allowed set
C18_QueryGuard ==
    [][gw.pc = "run" /\ gw.op = "query" /\ dbLog' # dbLog =>
         /\ \A i \in 1..Len(gw.query.text) : \A kw \in dangerousKeywords :
              ~Includes(ToLowerCase(gw.query.text[i]), kw)
         /\ gw.query.reads \subseteq gw.allowedTables]_vars

\* C19: insert, update and delete give storage a statement only when the
\* table identifier and every column identifier consist of letters, digits
\* and underscores
C19_IdentifiersChecked ==
    [][gw.pc = "run" /\ gw.op \in Mutators /\ dbLog' # dbLog =>
         /\ safeIdentifier(FullTableName(gw.userId, gw.tableName))
         /\ \A i \in 1..Len(gw.data \o gw.where) :
              safeIdentifier((gw.data \o gw.where)[i])]_vars

====
